---- MODULE Spec2Model ----
\* Verification model of the Gloo construction-coordination store:
\* tag detection (lib/detectTags.ts), the channel registry (lib/channels.ts),
\* the localStorage-backed store (lib/store.ts) and the pages that call them.
\*
\* Conventions
\*   - JavaScript strings are TLA+ strings; a JavaScript object used as a map
\*     (Record<string, ...>) is a function whose DOMAIN is its key set.
\*   - Null stands for the JavaScript value null.
\*   - The clock is read in whole seconds since the Unix epoch: the model only
\*     visits instants whose millisecond part is 000, which is the case for
\*     every timestamp of the seed data.  Date.now() is therefore the clock
\*     value followed by "000", and getTime() is compared in seconds.
EXTENDS Integers, Sequences, FiniteSets, TLC

VARIABLES
    localStorage,   \* window.localStorage: storage key -> parsed JSON value
    now,            \* the wall clock, seconds since the epoch
    editor,         \* the state of an open daily-log page (DailyLogPage), or no page
    detectText,     \* the text detectTags was last called with
    detectFound,    \* the tags detectTags returned for it
    endpoint,       \* the last request to POST /api/parse-log and its response
    channelView     \* the state of an open tag-filter channel (ChannelView), or none

vars == <<localStorage, now, editor, detectText, detectFound, endpoint, channelView>>

\* what the store operations leave alone
pageVars == <<editor, detectText, detectFound, endpoint, channelView>>

Null == "<null>"

EmptyRecord == [k \in {} |-> ""]

\* ---------------------------------------------------------------------------
\* Bounds of the model
\* ---------------------------------------------------------------------------
MaxTicks == 1
MaxNewMessages == 1
MaxReads == 1

\* entries of the thread ledger where threads of two projects are read
MaxLedgerEntries == 2

\* daily logs stored beyond the seeded ones
MaxNewLogs == 1

\* length of a text handed to detectTags
MaxTextLen == 15

\* schedule items stored beyond the seeded ones, and steps of a project's
\* highest order beyond the seeded one
MaxNewItems == 2

\* parse requests in flight at the same time
MaxRequests == 2

\* edits and date changes made in the daily-log editor
MaxEdits == 4

SetOf(seq) == {seq[i] : i \in 1..Len(seq)}

\* ---------------------------------------------------------------------------
\* Sequence helpers (Array.prototype.filter / map / some / sort)
\* ---------------------------------------------------------------------------
Includes(s, x) == \E i \in 1..Len(s) : s[i] = x

\* Array.prototype.sort((a, b) => key(a) - key(b)) for keys[i] = key(s[i]):
\* ascending and stable.
SortByKeys(s, keys) ==
    LET Insert(sorted, i) ==
            LET later == {j \in 1..Len(sorted) : keys[sorted[j]] - keys[i] > 0}
                pos == IF later = {} THEN Len(sorted) + 1
                       ELSE CHOOSE j \in later : \A k \in later : j <= k
            IN SubSeq(sorted, 1, pos - 1) \o <<i>> \o SubSeq(sorted, pos, Len(sorted))
        F[i \in 0..Len(s)] == IF i = 0 THEN <<>> ELSE Insert(F[i - 1], i)
    IN [k \in 1..Len(s) |-> s[F[Len(s)][k]]]

\* tags.some(tag => tagIds.includes(tag.id))
SomeTagIn(tags, tagIds) == \E i \in 1..Len(tags) : Includes(tagIds, tags[i].id)

\* ---------------------------------------------------------------------------
\* Time: Date.prototype.toISOString and new Date(iso).getTime()
\* ---------------------------------------------------------------------------
Digits == <<"0", "1", "2", "3", "4", "5", "6", "7", "8", "9">>

DigitValue(ch) == CHOOSE d \in 0..9 : Digits[d + 1] = ch

RECURSIVE ParseInt(_)
ParseInt(s) ==
    IF s = "" THEN 0
    ELSE 10 * ParseInt(SubSeq(s, 1, Len(s) - 1)) + DigitValue(SubSeq(s, Len(s), Len(s)))

Pad2(n) == IF n < 10 THEN "0" \o ToString(n) ELSE ToString(n)

Pad4(n) ==
    IF n < 10 THEN "000" \o ToString(n)
    ELSE IF n < 100 THEN "00" \o ToString(n)
    ELSE IF n < 1000 THEN "0" \o ToString(n)
    ELSE ToString(n)

\* Days since 1970-01-01 of a proleptic Gregorian date.
DaysFromCivil(year, month, day) ==
    LET y == IF month <= 2 THEN year - 1 ELSE year
        era == y \div 400
        yoe == y - era * 400
        mp == IF month > 2 THEN month - 3 ELSE month + 9
        doy == (153 * mp + 2) \div 5 + day - 1
        doe == yoe * 365 + yoe \div 4 - yoe \div 100 + doy
    IN era * 146097 + doe - 719468

\* The date <<year, month, day>> of a day number.
CivilFromDays(days) ==
    LET z == days + 719468
        era == z \div 146097
        doe == z - era * 146097
        yoe == (doe - doe \div 1460 + doe \div 36524 - doe \div 146096) \div 365
        doy == doe - (365 * yoe + yoe \div 4 - yoe \div 100)
        mp == (5 * doy + 2) \div 153
        d == doy - (153 * mp + 2) \div 5 + 1
        m == IF mp < 10 THEN mp + 3 ELSE mp - 9
        y == yoe + era * 400
    IN <<IF m <= 2 THEN y + 1 ELSE y, m, d>>

\* new Date(t).toISOString(): "YYYY-MM-DDTHH:mm:ss.000Z"
ToISOString(t) ==
    LET date == CivilFromDays(t \div 86400)
        secs == t % 86400
    IN Pad4(date[1]) \o "-" \o Pad2(date[2]) \o "-" \o Pad2(date[3]) \o "T"
       \o Pad2(secs \div 3600) \o ":" \o Pad2((secs % 3600) \div 60) \o ":"
       \o Pad2(secs % 60) \o ".000Z"

\* new Date(iso).getTime(), in seconds.
GetTime(iso) ==
    DaysFromCivil(ParseInt(SubSeq(iso, 1, 4)), ParseInt(SubSeq(iso, 6, 7)),
                  ParseInt(SubSeq(iso, 9, 10))) * 86400
    + ParseInt(SubSeq(iso, 12, 13)) * 3600
    + ParseInt(SubSeq(iso, 15, 16)) * 60
    + ParseInt(SubSeq(iso, 18, 19))

\* String(Date.now())
DateNowString(t) == ToString(t) \o "000"

\* ---------------------------------------------------------------------------
\* Tag detector (lib/detectTags.ts)
\* ---------------------------------------------------------------------------
TAG_DEFINITIONS == <<
    [id |-> "concrete", label |-> "Concrete",
     keywords |-> <<"concrete", "pour", "foundation", "slab", "cure", "forms", "rebar">>],
    [id |-> "electrical", label |-> "Electrical",
     keywords |-> <<"electrical", "panel", "wire", "conduit", "circuit", "breaker", "rough-in">>],
    [id |-> "plumbing", label |-> "Plumbing",
     keywords |-> <<"plumbing", "pipe", "drain", "water", "sewer", "fixture">>],
    [id |-> "framing", label |-> "Framing",
     keywords |-> <<"framing", "stud", "joist", "header", "truss", "sheathing">>],
    [id |-> "roofing", label |-> "Roofing",
     keywords |-> <<"roof", "roofing", "shingle", "membrane", "flashing">>],
    [id |-> "hvac", label |-> "HVAC",
     keywords |-> <<"hvac", "duct", "ductwork", "mechanical", "heating", "cooling">>],
    [id |-> "safety", label |-> "Safety",
     keywords |-> <<"safety", "guardrail", "harness", "osha", "fall protection", "hazard">>],
    [id |-> "delay", label |-> "Delay",
     keywords |-> <<"delay", "delayed", "pushed", "backorder", "hold", "waiting">>],
    [id |-> "rfi", label |-> "RFI",
     keywords |-> <<"rfi", "submittal", "clarification", "architect">>],
    [id |-> "inspection", label |-> "Inspection",
     keywords |-> <<"inspection", "inspector", "passed", "failed", "code">>],
    [id |-> "schedule", label |-> "Schedule",
     keywords |-> <<"schedule", "timeline", "deadline", "milestone">>],
    [id |-> "weather", label |-> "Weather",
     keywords |-> <<"weather", "rain", "wind", "storm", "temperature">>] >>

UpperCase == <<"A", "B", "C", "D", "E", "F", "G", "H", "I", "J", "K", "L", "M",
               "N", "O", "P", "Q", "R", "S", "T", "U", "V", "W", "X", "Y", "Z">>

LowerCase == <<"a", "b", "c", "d", "e", "f", "g", "h", "i", "j", "k", "l", "m",
               "n", "o", "p", "q", "r", "s", "t", "u", "v", "w", "x", "y", "z">>

LowerChar(ch) ==
    IF \E i \in 1..26 : UpperCase[i] = ch
    THEN LowerCase[CHOOSE i \in 1..26 : UpperCase[i] = ch]
    ELSE ch

\* String.prototype.toLowerCase on the characters the model's texts use,
\* computed by halves.
RECURSIVE ToLowerCase(_)
ToLowerCase(text) ==
    IF text = "" THEN ""
    ELSE IF Len(text) = 1 THEN LowerChar(text)
    ELSE LET half == Len(text) \div 2
         IN ToLowerCase(SubSeq(text, 1, half)) \o ToLowerCase(SubSeq(text, half + 1, Len(text)))

\* String.prototype.includes
StringIncludes(text, kw) ==
    \E i \in 1..(Len(text) - Len(kw) + 1) : SubSeq(text, i, i + Len(kw) - 1) = kw

\* mutant: one tag is pushed for every keyword that matches
detectTags_perKeyword(text) ==
    IF text = "" THEN <<>>
    ELSE LET lower == ToLowerCase(text)
             pairs == [i \in 1..Len(TAG_DEFINITIONS) |->
                          SelectSeq(TAG_DEFINITIONS[i].keywords,
                                    LAMBDA kw : StringIncludes(lower, kw))]
             found[i \in 0..Len(TAG_DEFINITIONS)] ==
                 IF i = 0 THEN <<>>
                 ELSE found[i - 1]
                      \o [k \in 1..Len(pairs[i]) |->
                             [id |-> TAG_DEFINITIONS[i].id,
                              label |-> TAG_DEFINITIONS[i].label]]
         IN found[Len(TAG_DEFINITIONS)]

detectTags(text) ==
    IF text = "" THEN <<>>
    ELSE LET lower == ToLowerCase(text)
             matched(def) == \E k \in 1..Len(def.keywords) :
                                StringIncludes(lower, def.keywords[k])
             found[i \in 0..Len(TAG_DEFINITIONS)] ==
                 IF i = 0 THEN <<>>
                 ELSE IF matched(TAG_DEFINITIONS[i])
                      THEN Append(found[i - 1],
                                  [id |-> TAG_DEFINITIONS[i].id,
                                   label |-> TAG_DEFINITIONS[i].label])
                      ELSE found[i - 1]
         IN found[Len(TAG_DEFINITIONS)]

\* ---------------------------------------------------------------------------
\* Channel registry (lib/channels.ts)
\* ---------------------------------------------------------------------------
CHANNELS == <<
    [id |-> "general", tagIds |-> <<>>, type |-> "general"],
    [id |-> "concrete", tagIds |-> <<"concrete">>, type |-> "tag-filter"],
    [id |-> "electrical", tagIds |-> <<"electrical">>, type |-> "tag-filter"],
    [id |-> "framing", tagIds |-> <<"framing">>, type |-> "tag-filter"],
    [id |-> "plumbing", tagIds |-> <<"plumbing">>, type |-> "tag-filter"],
    [id |-> "hvac", tagIds |-> <<"hvac">>, type |-> "tag-filter"],
    [id |-> "roofing", tagIds |-> <<"roofing">>, type |-> "tag-filter"],
    [id |-> "safety", tagIds |-> <<"safety">>, type |-> "tag-filter"],
    [id |-> "rfis-submittals", tagIds |-> <<"rfi", "inspection">>, type |-> "tag-filter"],
    [id |-> "schedule", tagIds |-> <<"schedule">>, type |-> "schedule-view"],
    [id |-> "daily-log", tagIds |-> <<>>, type |-> "navigation"] >>

ChannelIds == {CHANNELS[i].id : i \in 1..Len(CHANNELS)}

getChannelById(id) == CHOOSE ch \in {CHANNELS[i] : i \in 1..Len(CHANNELS)} : ch.id = id

\* ---------------------------------------------------------------------------
\* Seed data (lib/seedData.ts)
\* ---------------------------------------------------------------------------
seedUsers == <<
    [id |-> "user_super", name |-> "Mike Sullivan", role |-> "superintendent",
     projectIds |-> <<"project-1">>],
    [id |-> "user_pm", name |-> "Sarah Chen", role |-> "project_manager",
     projectIds |-> <<"project-1", "project-2">>] >>

seedProjects == <<
    [id |-> "project-1", name |-> "Oakwood Apartments",
     teamMemberIds |-> <<"user_super", "user_pm">>],
    [id |-> "project-2", name |-> "Downtown Office Remodel",
     teamMemberIds |-> <<"user_pm">>] >>

seedScheduleItems == <<
    [id |-> "schedule-1", projectId |-> "project-1", title |-> "Foundation Pouring",
     description |-> "Complete foundation pour for Building A",
     dueDate |-> "2026-02-15", status |-> "completed", assignedTo |-> "user_super",
     order |-> 1, createdAt |-> "2026-01-15T09:00:00.000Z",
     updatedAt |-> "2026-02-14T16:00:00.000Z"],
    [id |-> "schedule-2", projectId |-> "project-1", title |-> "Framing - Building A",
     description |-> "Complete structural framing for Building A",
     dueDate |-> "2026-03-01", status |-> "in_progress", assignedTo |-> "user_super",
     order |-> 2, createdAt |-> "2026-01-15T09:00:00.000Z",
     updatedAt |-> "2026-02-20T10:00:00.000Z"],
    [id |-> "schedule-3", projectId |-> "project-1", title |-> "Electrical Rough-In",
     description |-> "Install electrical wiring before drywall",
     dueDate |-> "2026-03-20", status |-> "not_started", assignedTo |-> "user_pm",
     order |-> 3, createdAt |-> "2026-01-15T09:00:00.000Z",
     updatedAt |-> "2026-01-15T09:00:00.000Z"],
    [id |-> "schedule-4", projectId |-> "project-2", title |-> "Demolition Phase",
     description |-> "Remove existing walls and fixtures",
     dueDate |-> "2026-02-10", status |-> "at_risk", assignedTo |-> "user_pm",
     order |-> 1, createdAt |-> "2026-01-20T10:00:00.000Z",
     updatedAt |-> "2026-02-05T14:00:00.000Z"],
    [id |-> "schedule-5", projectId |-> "project-2", title |-> "HVAC Installation",
     description |-> "Install new HVAC system",
     dueDate |-> "2026-03-01", status |-> "blocked", assignedTo |-> "user_pm",
     order |-> 2, createdAt |-> "2026-01-20T10:00:00.000Z",
     updatedAt |-> "2026-02-08T09:00:00.000Z"] >>

seedMessages == <<
    [id |-> "msg-1", projectId |-> "project-1", scheduleItemId |-> Null,
     authorId |-> "user_super", authorName |-> "Mike Sullivan",
     authorRole |-> "superintendent",
     content |-> "Team, we need to finalize the concrete supplier by end of week. Any concerns?",
     createdAt |-> "2026-01-28T09:00:00.000Z"],
    [id |-> "msg-2", projectId |-> "project-1", scheduleItemId |-> Null,
     authorId |-> "user_pm", authorName |-> "Sarah Chen",
     authorRole |-> "project_manager",
     content |-> "I've reviewed the bids. Summit Concrete has the best price and timeline. Recommending we go with them.",
     createdAt |-> "2026-01-28T10:30:00.000Z"],
    [id |-> "msg-3", projectId |-> "project-1", scheduleItemId |-> "schedule-2",
     authorId |-> "user_super", authorName |-> "Mike Sullivan",
     authorRole |-> "superintendent",
     content |-> "Framing crew arrived this morning. We're on track to finish ahead of schedule.",
     createdAt |-> "2026-02-20T08:00:00.000Z"],
    [id |-> "msg-4", projectId |-> "project-2", scheduleItemId |-> Null,
     authorId |-> "user_pm", authorName |-> "Sarah Chen",
     authorRole |-> "project_manager",
     content |-> "Downtown project kickoff meeting scheduled for Monday 9am. Please confirm attendance.",
     createdAt |-> "2026-01-30T14:00:00.000Z"],
    [id |-> "msg-5", projectId |-> "project-2", scheduleItemId |-> "schedule-5",
     authorId |-> "user_pm", authorName |-> "Sarah Chen",
     authorRole |-> "project_manager",
     content |-> "HVAC is blocked waiting on demo completion. Need to expedite demo to unblock this.",
     createdAt |-> "2026-02-08T09:00:00.000Z"] >>

seedDailyLogs == <<
    [id |-> "dailylog-1", projectId |-> "project-1", date |-> "2026-02-03",
     rawEntry |-> "Cloudy morning, cleared up by noon. Had 14 guys on site today - 4 from Martinez Electric doing rough-in on 2nd floor, 10 from our crew on framing. Got the east wall of Building A framed out, ahead of schedule. Inspector came by around 2pm, passed the foundation work on units 101-104. Still waiting on the steel delivery for the lintels, supposed to be here tomorrow. Called the supplier twice, they said it shipped Monday. Mike from the GC stopped by asking about the roof timeline - told him we need the steel first.",
     weather |-> "Cloudy", crewCount |-> 14, visitors |-> "Building inspector, Mike from GC",
     parsedData |->
        [weather |-> [condition |-> "Cloudy", details |-> "Cloudy morning, cleared up by noon"],
         crew |-> << [company |-> "Martinez Electric", count |-> 4, role |-> "Electrical rough-in"],
                     [company |-> "Own crew", count |-> 10, role |-> "Framing"] >>,
         inspections |-> << [inspector |-> "Building inspector",
                             area |-> "Foundation - units 101-104",
                             result |-> "Passed", details |-> "Came by around 2pm"] >>,
         deliveries |-> << [material |-> "Steel lintels", status |-> "Pending",
                            details |-> "Supposed to arrive tomorrow, supplier says shipped Monday"] >>,
         delays |-> << [issue |-> "Waiting on steel delivery for lintels",
                        impact |-> "Blocking roof timeline"] >>,
         workCompleted |-> <<
             [description |-> "East wall of Building A framed out", location |-> "Building A",
              scheduleItemId |-> "schedule-2", scheduleItemTitle |-> "Framing - Building A"],
             [description |-> "Electrical rough-in on 2nd floor", location |-> "2nd floor",
              scheduleItemId |-> "schedule-3", scheduleItemTitle |-> "Electrical Rough-In"] >>],
     createdAt |-> "2026-02-03T16:30:00.000Z", updatedAt |-> "2026-02-03T16:45:00.000Z"],
    [id |-> "dailylog-2", projectId |-> "project-1", date |-> "2026-02-04",
     rawEntry |-> "Cold start this morning, 38 degrees at 7am. Steel finally showed up at 9:30, two hours late. Had to reorganize the crew while we waited. Put 6 guys on interior cleanup and material staging. Once steel arrived we got the lintels set on units 101 and 102. Framing crew finished the north wall sections. Had a safety meeting at lunch - reminded everyone about fall protection on the scaffolding. No incidents today. Plumber is scheduled for Thursday to start rough-in. Need to confirm with Sarah about the permit status for Building B.",
     weather |-> "Cold", crewCount |-> 12, visitors |-> "",
     parsedData |->
        [weather |-> [condition |-> "Cold", details |-> "38 degrees at 7am"],
         crew |-> << [company |-> "Own crew", count |-> 12] >>,
         deliveries |-> << [material |-> "Steel lintels", status |-> "Delivered",
                            details |-> "Arrived at 9:30, two hours late"] >>,
         delays |-> << [issue |-> "Steel delivery 2 hours late",
                        impact |-> "Had to reorganize crew, put 6 on interior cleanup while waiting"],
                       [issue |-> "Permit status for Building B unknown",
                        impact |-> "Need to confirm with Sarah"] >>,
         workCompleted |-> <<
             [description |-> "Lintels set on units 101 and 102", location |-> "Units 101-102"],
             [description |-> "North wall sections framed",
              scheduleItemId |-> "schedule-2", scheduleItemTitle |-> "Framing - Building A"],
             [description |-> "Interior cleanup and material staging", location |-> "Interior"],
             [description |-> "Safety meeting - fall protection on scaffolding"] >>],
     createdAt |-> "2026-02-04T17:00:00.000Z", updatedAt |-> "2026-02-04T17:15:00.000Z"] >>

UserIds == {seedUsers[i].id : i \in 1..Len(seedUsers)}

ProjectIds == {seedProjects[i].id : i \in 1..Len(seedProjects)}

\* ---------------------------------------------------------------------------
\* Inputs the model draws for the operations
\* ---------------------------------------------------------------------------
InputContents == {"RFI sent to the architect", "Inspector is here", "ok"}

\* <<projectId, scheduleItemId>> of the threads messages are posted to and read in
InputThreads == {<<"project-1", Null>>, <<"project-1", "schedule-2">>}

\* the channels a user opens
InputChannels == {"general", "rfis-submittals", "schedule", "daily-log"}

ClockStarts == {GetTime("2026-02-10T00:00:00.000Z"), GetTime("2026-03-01T00:00:00.000Z")}

ClockInstants == UNION {start..(start + MaxTicks) : start \in ClockStarts}

KnownTexts == {seedMessages[i].content : i \in 1..Len(seedMessages)} \cup InputContents

KnownTimestamps ==
    {seedMessages[i].createdAt : i \in 1..Len(seedMessages)}
    \cup {ToISOString(t) : t \in ClockInstants}

\* detectTags of every text a stored message can carry, evaluated once.
detectTagsOf == [text \in KnownTexts |-> detectTags(text)]

\* new Date(iso).getTime() of every timestamp a stored value can carry, evaluated once.
getTime == [iso \in KnownTimestamps |-> GetTime(iso)]

\* ---------------------------------------------------------------------------
\* Store (lib/store.ts).  Every function that reads takes the content ls of
\* localStorage it reads from.
\* ---------------------------------------------------------------------------
KEYS == [projects |-> "constructionglue-projects",
         scheduleItems |-> "constructionglue-schedule-items",
         messages |-> "constructionglue-messages",
         readTimestamps |-> "constructionglue-read-timestamps",
         dailyLogs |-> "constructionglue-daily-logs",
         initialized |-> "constructionglue-initialized-v2"]

ChannelReadKey == "constructionglue-channel-read-timestamps"

\* JavaScript truthiness of a string-or-null value.
Truthy(v) == v # Null /\ v # ""

\* obj[key] || fallback, for a Record<string, string>
Lookup(obj, key, fallback) ==
    IF key \in DOMAIN obj /\ Truthy(obj[key]) THEN obj[key] ELSE fallback

\* allTimestamps[userId] || {}
UserTimestamps(allTimestamps, userId) ==
    IF userId \in DOMAIN allTimestamps THEN allTimestamps[userId] ELSE EmptyRecord

\* obj[key] = value on a Record
Assign(obj, key, value) == [k \in DOMAIN obj \cup {key} |-> IF k = key THEN value ELSE obj[k]]

\* An object literal whose properties may be undefined is a record
\*   [values |-> the properties with a defined value,
\*    undefinedKeys |-> the properties that are present with the value undefined];
\* a property in neither is left out of the literal.

\* { ...obj, ...updates, updatedAt } as JSON.stringify writes it: a property
\* of updates overwrites that of obj, also with undefined, and JSON.stringify
\* leaves out what is undefined
SpreadUpdates(obj, updates, updatedAt) ==
    LET keys == (DOMAIN obj \ updates.undefinedKeys) \cup DOMAIN updates.values
                    \cup {"updatedAt"}
    IN [k \in keys |-> IF k = "updatedAt" THEN updatedAt
                       ELSE IF k \in DOMAIN updates.values THEN updates.values[k]
                       ELSE obj[k]]

\* localStorage after initializeStore() has run on an empty one
SeededStorage(ls) ==
    Assign(Assign(Assign(Assign(Assign(Assign(
        ls, KEYS.projects, seedProjects),
            KEYS.scheduleItems, seedScheduleItems),
            KEYS.messages, seedMessages),
            KEYS.dailyLogs, seedDailyLogs),
            KEYS.readTimestamps, EmptyRecord),
            KEYS.initialized, "true")

initializeStore(ls) == IF KEYS.initialized \in DOMAIN ls THEN ls ELSE SeededStorage(ls)

getFromStorage(ls, key, defaultValue) ==
    IF key \in DOMAIN initializeStore(ls) THEN initializeStore(ls)[key] ELSE defaultValue

saveToStorage(key, data) == localStorage' = Assign(initializeStore(localStorage), key, data)

getProjects(ls) == getFromStorage(ls, KEYS.projects, <<>>)

getScheduleItemsForProject(ls, projectId) ==
    LET filtered == SelectSeq(getFromStorage(ls, KEYS.scheduleItems, <<>>),
                              LAMBDA item : item.projectId = projectId)
    IN SortByKeys(filtered, [i \in 1..Len(filtered) |-> filtered[i].order])

\* mutant: every message of the project belongs to every thread of it
getMessagesForThread_wholeProject(ls, projectId, scheduleItemId) ==
    LET filtered == SelectSeq(getFromStorage(ls, KEYS.messages, <<>>),
                              LAMBDA msg : msg.projectId = projectId)
    IN SortByKeys(filtered, [i \in 1..Len(filtered) |-> getTime[filtered[i].createdAt]])

getMessagesForThread(ls, projectId, scheduleItemId) ==
    LET filtered == SelectSeq(getFromStorage(ls, KEYS.messages, <<>>),
                              LAMBDA msg : /\ msg.projectId = projectId
                                           /\ msg.scheduleItemId = scheduleItemId)
    IN SortByKeys(filtered, [i \in 1..Len(filtered) |-> getTime[filtered[i].createdAt]])

\* mutant: one key per project
getThreadKey_perProject(projectId, scheduleItemId) ==
    projectId \o ":general"

getThreadKey(projectId, scheduleItemId) ==
    IF Truthy(scheduleItemId)
    THEN projectId \o ":" \o scheduleItemId
    ELSE projectId \o ":general"

getLastReadTimestamp(ls, userId, projectId, scheduleItemId) ==
    Lookup(UserTimestamps(getFromStorage(ls, KEYS.readTimestamps, EmptyRecord), userId),
           getThreadKey(projectId, scheduleItemId), Null)

\* mutant: a thread that was never read reports nothing unread
getUnreadCountForThread_neverReadZero(ls, userId, projectId, scheduleItemId) ==
    LET lastRead == getLastReadTimestamp(ls, userId, projectId, scheduleItemId)
        threadMessages == getMessagesForThread(ls, projectId, scheduleItemId)
    IN IF ~Truthy(lastRead)
       THEN 0
       ELSE LET lastReadTime == getTime[lastRead]
            IN Len(SelectSeq(threadMessages,
                             LAMBDA msg : /\ msg.authorId # userId
                                          /\ getTime[msg.createdAt] > lastReadTime))

\* mutant: a thread that was never read counts the reader's own messages too
getUnreadCountForThread_countsOwn(ls, userId, projectId, scheduleItemId) ==
    LET lastRead == getLastReadTimestamp(ls, userId, projectId, scheduleItemId)
        threadMessages == getMessagesForThread(ls, projectId, scheduleItemId)
    IN IF ~Truthy(lastRead)
       THEN Len(threadMessages)
       ELSE LET lastReadTime == getTime[lastRead]
            IN Len(SelectSeq(threadMessages,
                             LAMBDA msg : /\ msg.authorId # userId
                                          /\ getTime[msg.createdAt] > lastReadTime))

\* mutant: a message created at lastRead exactly counts as unread
getUnreadCountForThread_inclusive(ls, userId, projectId, scheduleItemId) ==
    LET lastRead == getLastReadTimestamp(ls, userId, projectId, scheduleItemId)
        threadMessages == getMessagesForThread(ls, projectId, scheduleItemId)
    IN IF ~Truthy(lastRead)
       THEN Len(SelectSeq(threadMessages, LAMBDA msg : msg.authorId # userId))
       ELSE LET lastReadTime == getTime[lastRead]
            IN Len(SelectSeq(threadMessages,
                             LAMBDA msg : /\ msg.authorId # userId
                                          /\ getTime[msg.createdAt] >= lastReadTime))

getUnreadCountForThread(ls, userId, projectId, scheduleItemId) ==
    LET lastRead == getLastReadTimestamp(ls, userId, projectId, scheduleItemId)
        threadMessages == getMessagesForThread(ls, projectId, scheduleItemId)
    IN IF ~Truthy(lastRead)
       THEN Len(SelectSeq(threadMessages, LAMBDA msg : msg.authorId # userId))
       ELSE LET lastReadTime == getTime[lastRead]
            IN Len(SelectSeq(threadMessages,
                             LAMBDA msg : /\ msg.authorId # userId
                                          /\ getTime[msg.createdAt] > lastReadTime))

getAllMessagesForProject(ls, projectId) ==
    LET filtered == SelectSeq(getFromStorage(ls, KEYS.messages, <<>>),
                              LAMBDA msg : msg.projectId = projectId)
    IN SortByKeys(filtered, [i \in 1..Len(filtered) |-> getTime[filtered[i].createdAt]])

getChannelLastReadTimestamp(ls, userId, projectId, channelId) ==
    Lookup(UserTimestamps(getFromStorage(ls, ChannelReadKey, EmptyRecord), userId),
           projectId \o ":" \o channelId, Null)

\* mutant: the channel cutoff is read from the thread-read ledger
ChannelLastReadTime_threadLedger(ls, userId, projectId, channelId) ==
    LET allTimestamps == getFromStorage(ls, KEYS.readTimestamps, EmptyRecord)
        lastRead == Lookup(UserTimestamps(allTimestamps, userId),
                           projectId \o ":" \o channelId, Null)
    IN IF Truthy(lastRead) THEN getTime[lastRead] ELSE 0

\* lastReadTime of one channel in getUnreadCountsByChannel
ChannelLastReadTime(ls, userId, projectId, channelId) ==
    LET allTimestamps == getFromStorage(ls, ChannelReadKey, EmptyRecord)
        lastRead == Lookup(UserTimestamps(allTimestamps, userId),
                           projectId \o ":" \o channelId, Null)
    IN IF Truthy(lastRead) THEN getTime[lastRead] ELSE 0

\* mutant: a tag channel looks at the general thread only
ChannelMessages_tagsOfGeneralThread(allMessages, channel) ==
    IF channel.type = "general"
    THEN SelectSeq(allMessages, LAMBDA msg : msg.scheduleItemId = Null)
    ELSE SelectSeq(allMessages, LAMBDA msg :
             /\ msg.scheduleItemId = Null
             /\ SomeTagIn(detectTagsOf[msg.content], channel.tagIds))

\* mutant: the general channel takes every message of the project
ChannelMessages_generalUnfiltered(allMessages, channel) ==
    IF channel.type = "general"
    THEN allMessages
    ELSE SelectSeq(allMessages, LAMBDA msg :
             SomeTagIn(detectTagsOf[msg.content], channel.tagIds))

\* channelMessages of a general, tag-filter or schedule-view channel in
\* getUnreadCountsByChannel
ChannelMessages(allMessages, channel) ==
    IF channel.type = "general"
    THEN SelectSeq(allMessages, LAMBDA msg : msg.scheduleItemId = Null)
    ELSE SelectSeq(allMessages, LAMBDA msg :
             SomeTagIn(detectTagsOf[msg.content], channel.tagIds))

\* mutant: a channel without tag ids is treated as the general channel, and
\* no channel type is skipped
getUnreadCountsByChannel_untaggedAsGeneral(ls, userId, projectId) ==
    LET allMessages == getAllMessagesForProject(ls, projectId)
        CountOf(channel) ==
            LET lastReadTime == ChannelLastReadTime(ls, userId, projectId, channel.id)
                channelMessages ==
                    IF channel.tagIds = <<>>
                    THEN SelectSeq(allMessages, LAMBDA msg : msg.scheduleItemId = Null)
                    ELSE ChannelMessages(allMessages, channel)
            IN Len(SelectSeq(channelMessages,
                             LAMBDA msg : /\ msg.authorId # userId
                                          /\ getTime[msg.createdAt] > lastReadTime))
    IN [id \in ChannelIds |-> CountOf(getChannelById(id))]

getUnreadCountsByChannel(ls, userId, projectId) ==
    LET allMessages == getAllMessagesForProject(ls, projectId)
        CountOf(channel) ==
            LET lastReadTime == ChannelLastReadTime(ls, userId, projectId, channel.id)
            IN IF channel.type \in {"general", "tag-filter", "schedule-view"}
               THEN Len(SelectSeq(ChannelMessages(allMessages, channel),
                                  LAMBDA msg : /\ msg.authorId # userId
                                               /\ getTime[msg.createdAt] > lastReadTime))
               ELSE 0
    IN [id \in ChannelIds |-> CountOf(getChannelById(id))]

\* ---------------------------------------------------------------------------
\* Views
\* ---------------------------------------------------------------------------
\* mutant: only the first tag id of the channel is looked for
filteredMessages_firstTagOnly(ls, projectId, channelConfig) ==
    SelectSeq(getAllMessagesForProject(ls, projectId), LAMBDA msg :
        SomeTagIn(detectTagsOf[msg.content], SubSeq(channelConfig.tagIds, 1, 1)))

\* ChannelView.filteredMessages, for the allMessages the project page loads
filteredMessages(ls, projectId, channelConfig) ==
    SelectSeq(getAllMessagesForProject(ls, projectId), LAMBDA msg :
        SomeTagIn(detectTagsOf[msg.content], channelConfig.tagIds))

UserById(userId) == CHOOSE u \in {seedUsers[i] : i \in 1..Len(seedUsers)} : u.id = userId

\* ProjectsPage.loadProjectList: the unread total per project of the session user
projectUnreadCounts(ls, userId) ==
    LET userProjects == SelectSeq(getProjects(ls),
                                  LAMBDA p : Includes(UserById(userId).projectIds, p.id))
        Total(projectId) ==
            LET items == getScheduleItemsForProject(ls, projectId)
                acc[i \in 0..Len(items)] ==
                    IF i = 0 THEN getUnreadCountForThread(ls, userId, projectId, Null)
                    ELSE acc[i - 1]
                         + getUnreadCountForThread(ls, userId, projectId, items[i].id)
            IN acc[Len(items)]
    IN [projectId \in {userProjects[i].id : i \in 1..Len(userProjects)} |-> Total(projectId)]

\* ---------------------------------------------------------------------------
\* Operations
\* ---------------------------------------------------------------------------
NumEntries(allTimestamps) ==
    LET users == DOMAIN allTimestamps
        F[S \in SUBSET users] ==
            IF S = {} THEN 0
            ELSE LET u == CHOOSE x \in S : TRUE
                 IN Cardinality(DOMAIN allTimestamps[u]) + F[S \ {u}]
    IN F[users]

HasEntry(allTimestamps, userId, key) ==
    userId \in DOMAIN allTimestamps /\ key \in DOMAIN allTimestamps[userId]

\* entries of the two read ledgers together
NumReads ==
    NumEntries(getFromStorage(localStorage, KEYS.readTimestamps, EmptyRecord))
    + NumEntries(getFromStorage(localStorage, ChannelReadKey, EmptyRecord))

\* no daily-log page is open
NoEditor == [open |-> FALSE]

\* the parse endpoint was not called
NoCall == [called |-> FALSE]

\* no tag-filter channel is open
NoChannel == [open |-> FALSE]

Init ==
    /\ localStorage = initializeStore(EmptyRecord)
    /\ now \in ClockStarts
    /\ editor = NoEditor
    /\ detectText = ""
    /\ detectFound = <<>>
    /\ endpoint = NoCall
    /\ channelView = NoChannel

Tick ==
    /\ now + 1 \in ClockInstants
    /\ now' = now + 1
    /\ UNCHANGED <<localStorage, pageVars>>

\* mutant: messages.unshift(newMessage), the new message is put first
createMessage_unshift(projectId, scheduleItemId, authorId, authorName, authorRole, content) ==
    LET stored == getFromStorage(localStorage, KEYS.messages, <<>>)
        newMessage == [id |-> "msg-" \o DateNowString(now),
                       projectId |-> projectId,
                       scheduleItemId |-> scheduleItemId,
                       authorId |-> authorId,
                       authorName |-> authorName,
                       authorRole |-> authorRole,
                       content |-> content,
                       createdAt |-> ToISOString(now)]
    IN /\ Len(stored) < Len(seedMessages) + MaxNewMessages
       /\ saveToStorage(KEYS.messages, <<newMessage>> \o stored)
       /\ UNCHANGED now

createMessage(projectId, scheduleItemId, authorId, authorName, authorRole, content) ==
    LET stored == getFromStorage(localStorage, KEYS.messages, <<>>)
        newMessage == [id |-> "msg-" \o DateNowString(now),
                       projectId |-> projectId,
                       scheduleItemId |-> scheduleItemId,
                       authorId |-> authorId,
                       authorName |-> authorName,
                       authorRole |-> authorRole,
                       content |-> content,
                       createdAt |-> ToISOString(now)]
    IN /\ Len(stored) < Len(seedMessages) + MaxNewMessages
       /\ saveToStorage(KEYS.messages, Append(stored, newMessage))
       /\ UNCHANGED now

CreateMessage ==
    /\ \E thread \in InputThreads, authorId \in UserIds, content \in InputContents :
           createMessage(thread[1], thread[2], authorId,
                         UserById(authorId).name, UserById(authorId).role, content)
    /\ UNCHANGED pageVars

\* the write overwrites an entry of the ledger, or the ledgers hold fewer
\* than bound entries
MayRecord(ledgerKey, userId, key, bound) ==
    \/ HasEntry(getFromStorage(localStorage, ledgerKey, EmptyRecord), userId, key)
    \/ NumReads < bound

markThreadAsRead(userId, projectId, scheduleItemId) ==
    LET allTimestamps == getFromStorage(localStorage, KEYS.readTimestamps, EmptyRecord)
        threadKey == getThreadKey(projectId, scheduleItemId)
    IN /\ saveToStorage(KEYS.readTimestamps,
                        Assign(allTimestamps, userId,
                               Assign(UserTimestamps(allTimestamps, userId), threadKey,
                                      ToISOString(now))))
       /\ UNCHANGED now

MarkThreadAsRead ==
    /\ \E userId \in UserIds, thread \in InputThreads :
           /\ MayRecord(KEYS.readTimestamps, userId,
                        getThreadKey(thread[1], thread[2]), MaxReads)
           /\ markThreadAsRead(userId, thread[1], thread[2])
    /\ UNCHANGED pageVars

markChannelAsRead(userId, projectId, channelId) ==
    LET allTimestamps == getFromStorage(localStorage, ChannelReadKey, EmptyRecord)
        key == projectId \o ":" \o channelId
    IN /\ saveToStorage(ChannelReadKey,
                        Assign(allTimestamps, userId,
                               Assign(UserTimestamps(allTimestamps, userId), key,
                                      ToISOString(now))))
       /\ UNCHANGED now

MarkChannelAsRead ==
    /\ \E userId \in UserIds, thread \in InputThreads, channelId \in InputChannels :
           /\ MayRecord(ChannelReadKey, userId, thread[1] \o ":" \o channelId, MaxReads)
           /\ markChannelAsRead(userId, thread[1], channelId)
    /\ UNCHANGED pageVars

\* removeItem(KEYS.initialized), then initializeStore()
resetStore ==
    /\ localStorage' =
           initializeStore([k \in DOMAIN localStorage \ {KEYS.initialized} |-> localStorage[k]])
    /\ UNCHANGED <<now, pageVars>>

Next ==
    \/ Tick
    \/ CreateMessage
    \/ MarkThreadAsRead
    \/ MarkChannelAsRead
    \/ resetStore

Spec == Init /\ [][Next]_vars

\* ---------------------------------------------------------------------------
\* The thread ledger with several entries: messages are posted and threads
\* are read in two projects
\* ---------------------------------------------------------------------------
InputLedgerThreads == InputThreads \cup {<<"project-2", Null>>}

PostMessage ==
    /\ \E thread \in InputLedgerThreads, authorId \in UserIds :
           createMessage(thread[1], thread[2], authorId,
                         UserById(authorId).name, UserById(authorId).role, "ok")
    /\ UNCHANGED pageVars

ReadThread ==
    /\ \E userId \in UserIds, thread \in InputLedgerThreads :
           /\ MayRecord(KEYS.readTimestamps, userId,
                        getThreadKey(thread[1], thread[2]), MaxLedgerEntries)
           /\ markThreadAsRead(userId, thread[1], thread[2])
    /\ UNCHANGED pageVars

NextLedger ==
    \/ Tick
    \/ PostMessage
    \/ ReadThread

SpecLedger == Init /\ [][NextLedger]_vars

\* ---------------------------------------------------------------------------
\* Schedule items: the add-item form, the item's thread and its deletion
\* ---------------------------------------------------------------------------
\* an optional argument that is left out; JSON.stringify drops the field
Undefined == "<undefined>"

InputTitles == {"Punch list"}

InputDueDates == {"2026-04-01"}

\* newDescription.trim() || undefined
InputDescriptions == {Undefined}

\* a record with the field set, or without it when the value is undefined
WithOptional(obj, key, value) == IF value = Undefined THEN obj ELSE Assign(obj, key, value)

\* Math.max(...values) for a non-empty set of numbers
MathMax(values) == CHOOSE v \in values : \A w \in values : w <= v

\* highest order among the seeded items of the project, 0 without any
SeedMaxOrder(projectId) ==
    LET orders == {seedScheduleItems[i].order :
                       i \in {j \in 1..Len(seedScheduleItems) :
                                  seedScheduleItems[j].projectId = projectId}}
    IN IF orders = {} THEN 0 ELSE MathMax(orders)

\* mutant: the order is 1 + the number of items of the project
createScheduleItem_countOrder(projectId, title, dueDate, description, assignedTo) ==
    LET items == getFromStorage(localStorage, KEYS.scheduleItems, <<>>)
        projectItems == SelectSeq(items, LAMBDA item : item.projectId = projectId)
        maxOrder == Len(projectItems)
        newItem == WithOptional(WithOptional(
                       [id |-> "schedule-" \o DateNowString(now),
                        projectId |-> projectId,
                        title |-> title,
                        dueDate |-> dueDate,
                        status |-> "not_started",
                        order |-> maxOrder + 1,
                        createdAt |-> ToISOString(now),
                        updatedAt |-> ToISOString(now)],
                       "description", description),
                       "assignedTo", assignedTo)
    IN /\ Len(items) < Len(seedScheduleItems) + MaxNewItems
       /\ maxOrder < SeedMaxOrder(projectId) + MaxNewItems
       /\ saveToStorage(KEYS.scheduleItems, Append(items, newItem))
       /\ UNCHANGED now

\* mutant: the highest order is taken over the items of every project
createScheduleItem_allProjects(projectId, title, dueDate, description, assignedTo) ==
    LET items == getFromStorage(localStorage, KEYS.scheduleItems, <<>>)
        projectItems == items
        maxOrder == IF Len(projectItems) > 0
                    THEN MathMax({projectItems[i].order : i \in 1..Len(projectItems)})
                    ELSE 0
        newItem == WithOptional(WithOptional(
                       [id |-> "schedule-" \o DateNowString(now),
                        projectId |-> projectId,
                        title |-> title,
                        dueDate |-> dueDate,
                        status |-> "not_started",
                        order |-> maxOrder + 1,
                        createdAt |-> ToISOString(now),
                        updatedAt |-> ToISOString(now)],
                       "description", description),
                       "assignedTo", assignedTo)
    IN /\ Len(items) < Len(seedScheduleItems) + MaxNewItems
       /\ maxOrder < SeedMaxOrder(projectId) + MaxNewItems
       /\ saveToStorage(KEYS.scheduleItems, Append(items, newItem))
       /\ UNCHANGED now

createScheduleItem(projectId, title, dueDate, description, assignedTo) ==
    LET items == getFromStorage(localStorage, KEYS.scheduleItems, <<>>)
        projectItems == SelectSeq(items, LAMBDA item : item.projectId = projectId)
        maxOrder == IF Len(projectItems) > 0
                    THEN MathMax({projectItems[i].order : i \in 1..Len(projectItems)})
                    ELSE 0
        newItem == WithOptional(WithOptional(
                       [id |-> "schedule-" \o DateNowString(now),
                        projectId |-> projectId,
                        title |-> title,
                        dueDate |-> dueDate,
                        status |-> "not_started",
                        order |-> maxOrder + 1,
                        createdAt |-> ToISOString(now),
                        updatedAt |-> ToISOString(now)],
                       "description", description),
                       "assignedTo", assignedTo)
    IN /\ Len(items) < Len(seedScheduleItems) + MaxNewItems
       /\ maxOrder < SeedMaxOrder(projectId) + MaxNewItems
       /\ saveToStorage(KEYS.scheduleItems, Append(items, newItem))
       /\ UNCHANGED now

\* createScheduleItem with the arguments of the add-item form
AddItem ==
    /\ \E projectId \in ProjectIds, title \in InputTitles, dueDate \in InputDueDates,
          description \in InputDescriptions :
           createScheduleItem(projectId, title, dueDate, description, Undefined)
    /\ UNCHANGED pageVars

\* items.findIndex(item => item.id === itemId), 0 for -1
FindIndexById(items, itemId) ==
    LET found == {i \in 1..Len(items) : items[i].id = itemId}
    IN IF found = {} THEN 0 ELSE CHOOSE i \in found : \A j \in found : i <= j

\* mutant: without the early return, splice(-1, 1) removes the last item
deleteScheduleItem_noEarlyReturn(itemId) ==
    LET items == getFromStorage(localStorage, KEYS.scheduleItems, <<>>)
        index == FindIndexById(items, itemId)
    IN /\ IF index = 0
          THEN saveToStorage(KEYS.scheduleItems, SubSeq(items, 1, Len(items) - 1))
          ELSE saveToStorage(KEYS.scheduleItems,
                             SubSeq(items, 1, index - 1) \o SubSeq(items, index + 1, Len(items)))
       /\ UNCHANGED now

deleteScheduleItem(itemId) ==
    LET items == getFromStorage(localStorage, KEYS.scheduleItems, <<>>)
        index == FindIndexById(items, itemId)
    IN /\ IF index = 0
          THEN localStorage' = initializeStore(localStorage)
          ELSE saveToStorage(KEYS.scheduleItems,
                             SubSeq(items, 1, index - 1) \o SubSeq(items, index + 1, Len(items)))
       /\ UNCHANGED now

\* the stored items that were created after seeding
CreatedItems(ls) ==
    LET items == getFromStorage(ls, KEYS.scheduleItems, <<>>)
    IN {items[i] : i \in {j \in 1..Len(items) :
                              \A k \in 1..Len(seedScheduleItems) :
                                  items[j].id # seedScheduleItems[k].id}}

\* deleteScheduleItem of a created item or of the seeded item schedule-2,
\* stored or already deleted
DeleteItem ==
    /\ \E itemId \in {item.id : item \in CreatedItems(localStorage)} \cup {"schedule-2"} :
           deleteScheduleItem(itemId)
    /\ UNCHANGED pageVars

\* createMessage in the thread of a created item
SendItemMessage ==
    /\ \E item \in CreatedItems(localStorage), authorId \in UserIds :
           createMessage(item.projectId, item.id, authorId,
                         UserById(authorId).name, UserById(authorId).role, "ok")
    /\ UNCHANGED pageVars

\* markThreadAsRead of the thread of a created item
ReadItemThread ==
    /\ \E item \in CreatedItems(localStorage), userId \in UserIds :
           /\ MayRecord(KEYS.readTimestamps, userId,
                        getThreadKey(item.projectId, item.id), MaxReads)
           /\ markThreadAsRead(userId, item.projectId, item.id)
    /\ UNCHANGED pageVars

NextSchedule ==
    \/ Tick
    \/ AddItem
    \/ DeleteItem
    \/ SendItemMessage
    \/ ReadItemThread
    \/ MarkThreadAsRead
    \/ MarkChannelAsRead

SpecSchedule == Init /\ [][NextSchedule]_vars

\* ---------------------------------------------------------------------------
\* Schedule items: status, edit and deletion of any item
\* ---------------------------------------------------------------------------
\* undefined, where a ScheduleItem is expected
NoItem == EmptyRecord

\* the value updateScheduleItemStatus(itemId, status) returns
updateScheduleItemStatusResult(itemId, status) ==
    LET items == getFromStorage(localStorage, KEYS.scheduleItems, <<>>)
        index == FindIndexById(items, itemId)
    IN IF index = 0 THEN NoItem
       ELSE Assign(Assign(items[index], "status", status), "updatedAt", ToISOString(now))

updateScheduleItemStatus(itemId, status) ==
    LET items == getFromStorage(localStorage, KEYS.scheduleItems, <<>>)
        index == FindIndexById(items, itemId)
    IN /\ IF index = 0
          THEN localStorage' = initializeStore(localStorage)
          ELSE saveToStorage(KEYS.scheduleItems,
                             [items EXCEPT ![index] =
                                  updateScheduleItemStatusResult(itemId, status)])
       /\ UNCHANGED now

\* the value updateScheduleItem(itemId, updates) returns, as it is stored
updateScheduleItemResult(itemId, updates) ==
    LET items == getFromStorage(localStorage, KEYS.scheduleItems, <<>>)
        index == FindIndexById(items, itemId)
    IN IF index = 0 THEN NoItem
       ELSE SpreadUpdates(items[index], updates, ToISOString(now))

updateScheduleItem(itemId, updates) ==
    LET items == getFromStorage(localStorage, KEYS.scheduleItems, <<>>)
        index == FindIndexById(items, itemId)
    IN /\ IF index = 0
          THEN localStorage' = initializeStore(localStorage)
          ELSE saveToStorage(KEYS.scheduleItems,
                             [items EXCEPT ![index] = updateScheduleItemResult(itemId, updates)])
       /\ UNCHANGED now

\* the value deleteScheduleItem(itemId) returns
deleteScheduleItemResult(itemId) ==
    FindIndexById(getFromStorage(localStorage, KEYS.scheduleItems, <<>>), itemId) # 0

\* an id no item was ever stored under
MissingItemId == "schedule-404"

\* the items whose status and fields are changed: a seeded one and a missing one
InputItemIds == {"schedule-2", MissingItemId}

InputStatuses == {"completed"}

\* the updates of ThreadView.handleSaveEdit, the description left empty
InputItemUpdates ==
    {[values |-> [title |-> "Framing - Building B", dueDate |-> "2026-03-05",
                  assignedTo |-> "user_pm"],
      undefinedKeys |-> {"description"}]}

UpdateItemStatus ==
    /\ \E itemId \in InputItemIds, status \in InputStatuses :
           updateScheduleItemStatus(itemId, status)
    /\ UNCHANGED pageVars

UpdateItem ==
    /\ \E itemId \in InputItemIds, updates \in InputItemUpdates :
           updateScheduleItem(itemId, updates)
    /\ UNCHANGED pageVars

\* deleteScheduleItem of a created item, of a seeded item of either project,
\* stored or already deleted, or of the missing id
DeleteAnyItem ==
    /\ \E itemId \in {item.id : item \in CreatedItems(localStorage)}
                         \cup {"schedule-2", "schedule-4", "schedule-5", MissingItemId} :
           deleteScheduleItem(itemId)
    /\ UNCHANGED pageVars

NextItems ==
    \/ Tick
    \/ AddItem
    \/ DeleteAnyItem
    \/ UpdateItemStatus
    \/ UpdateItem

SpecItems == Init /\ [][NextItems]_vars

\* ---------------------------------------------------------------------------
\* Daily logs (lib/store.ts)
\* ---------------------------------------------------------------------------
\* undefined, where a DailyLog is expected
NoLog == EmptyRecord

\* logs.findIndex(log => log.projectId === projectId && log.date === date), 0 for -1
FindLogIndex(logs, projectId, date) ==
    LET found == {i \in 1..Len(logs) : logs[i].projectId = projectId /\ logs[i].date = date}
    IN IF found = {} THEN 0 ELSE CHOOSE i \in found : \A j \in found : i <= j

getDailyLogByDate(ls, projectId, date) ==
    LET logs == getFromStorage(ls, KEYS.dailyLogs, <<>>)
        index == FindLogIndex(logs, projectId, date)
    IN IF index = 0 THEN NoLog ELSE logs[index]

\* mutant: the record found is left as it is and a new one is pushed
upsertDailyLog_alwaysInsert(projectId, date, updates) ==
    LET logs == getFromStorage(localStorage, KEYS.dailyLogs, <<>>)
        newLog == [k \in {"id", "projectId", "date", "createdAt", "updatedAt"}
                          \cup (DOMAIN updates.values \cap
                                    {"rawEntry", "weather", "crewCount", "visitors"}) |->
                      CASE k = "id" -> "dailylog-" \o DateNowString(now)
                        [] k = "projectId" -> projectId
                        [] k = "date" -> date
                        [] k \in {"createdAt", "updatedAt"} -> ToISOString(now)
                        [] OTHER -> updates.values[k]]
    IN /\ Len(logs) < Len(seedDailyLogs) + MaxNewLogs
       /\ saveToStorage(KEYS.dailyLogs, Append(logs, newLog))
       /\ UNCHANGED now

upsertDailyLog(projectId, date, updates) ==
    LET logs == getFromStorage(localStorage, KEYS.dailyLogs, <<>>)
        index == FindLogIndex(logs, projectId, date)
        newLog == [k \in {"id", "projectId", "date", "createdAt", "updatedAt"}
                          \cup (DOMAIN updates.values \cap
                                    {"rawEntry", "weather", "crewCount", "visitors"}) |->
                      CASE k = "id" -> "dailylog-" \o DateNowString(now)
                        [] k = "projectId" -> projectId
                        [] k = "date" -> date
                        [] k \in {"createdAt", "updatedAt"} -> ToISOString(now)
                        [] OTHER -> updates.values[k]]
    IN /\ IF index # 0
          THEN saveToStorage(KEYS.dailyLogs,
                             [logs EXCEPT ![index] =
                                  SpreadUpdates(logs[index], updates, ToISOString(now))])
          ELSE /\ Len(logs) < Len(seedDailyLogs) + MaxNewLogs
               /\ saveToStorage(KEYS.dailyLogs, Append(logs, newLog))
       /\ UNCHANGED now

updateDailyLogParsedData(projectId, date, parsedData) ==
    LET logs == getFromStorage(localStorage, KEYS.dailyLogs, <<>>)
        index == FindLogIndex(logs, projectId, date)
    IN /\ IF index = 0
          THEN localStorage' = initializeStore(localStorage)
          ELSE saveToStorage(KEYS.dailyLogs,
                             [logs EXCEPT ![index] =
                                  Assign(Assign(logs[index], "parsedData", parsedData),
                                         "updatedAt", ToISOString(now))])
       /\ UNCHANGED now

\* <<projectId, date>> of the logs written: a seeded one, a new date, another project
InputLogKeys == {<<"project-1", "2026-02-03">>, <<"project-1", "2026-02-10">>,
                 <<"project-2", "2026-02-03">>}

\* the updates argument: every optional field left out, every field given,
\* and the editor's literal with the empty fields set to undefined
InputUpdates ==
    {[values |-> [rawEntry |-> "Poured the slab"], undefinedKeys |-> {}],
     [values |-> [rawEntry |-> "Rain all day", weather |-> "Rain", crewCount |-> 6,
                  visitors |-> "Owner"],
      undefinedKeys |-> {}],
     [values |-> [rawEntry |-> "Short day"],
      undefinedKeys |-> {"weather", "crewCount", "visitors"}]}

\* a ParsedLogData the parse endpoint answers with
InputParsedData ==
    {[weather |-> [condition |-> "Rain", details |-> "Rain all day"],
      crew |-> << [company |-> "Own crew", count |-> 6] >>]}

UpsertDailyLog ==
    /\ \E key \in InputLogKeys, updates \in InputUpdates :
           upsertDailyLog(key[1], key[2], updates)
    /\ UNCHANGED pageVars

UpdateDailyLogParsedData ==
    /\ \E key \in InputLogKeys, parsedData \in InputParsedData :
           updateDailyLogParsedData(key[1], key[2], parsedData)
    /\ UNCHANGED pageVars

NextLogs ==
    \/ Tick
    \/ UpsertDailyLog
    \/ UpdateDailyLogParsedData

SpecLogs == Init /\ [][NextLogs]_vars

\* ---------------------------------------------------------------------------
\* The daily-log editor (app/projects/[id]/log/page.tsx)
\* ---------------------------------------------------------------------------
\* The editor's state is the record editor:
\*   projectId, selectedDate, rawEntry, weather, crewCount, visitors, saveStatus,
\*   parseStatus                the useState values of the same names;
\*   parsedData                 <<>> for null, <<data>> otherwise;
\*   isInitialLoad, lastParsedText   the refs isInitialLoadRef, lastParsedTextRef;
\*   timers                     the pending setTimeout callbacks of the auto-save
\*                              effect, each with the values its closure holds;
\*   debounceRef                <<>> for null, <<timer>> for the timer last set;
\*   cleanup                    the last run of the auto-save effect returned
\*                              its cleanup function;
\*   savedTimer                 the timer of savedTimerRef is pending;
\*   requests                   the parse requests in flight, in the order of
\*                              their fetch, each with the values the closure
\*                              of triggerParsing holds;
\*   edits                      the number of edits and date changes so far;
\*   lastRequest                <<>> or <<r>>, r the parse request sent last with
\*                              its outcome and whether a request for the same
\*                              log was in flight when it was sent
\*   lastSubmitted              the text of the parse request sent last, "" when
\*                              none was sent.
\* A state update, the render it causes and the effects of that render are
\* one step.

weatherOptions == <<"Clear", "Cloudy", "Rain", "Snow", "Hot", "Cold">>

\* text.trim().length < 50
MinParseLength == 50

WhiteSpace == {" ", "\t", "\n"}

\* String.prototype.trim
RECURSIVE Trim(_)
Trim(s) ==
    IF s = "" THEN ""
    ELSE IF SubSeq(s, 1, 1) \in WhiteSpace THEN Trim(SubSeq(s, 2, Len(s)))
    ELSE IF SubSeq(s, Len(s), Len(s)) \in WhiteSpace THEN Trim(SubSeq(s, 1, Len(s) - 1))
    ELSE s

\* new Date().toISOString().split('T')[0]
Today(t) == SubSeq(ToISOString(t), 1, 10)

\* the project whose log page is opened
EditorProjectId == "project-1"

\* the effect "Load log for selected date"
LoadLog(ed, ls) ==
    LET existing == getDailyLogByDate(ls, ed.projectId, ed.selectedDate)
        hasParsedData == "parsedData" \in DOMAIN existing
    IN IF existing # NoLog
       THEN [ed EXCEPT !.isInitialLoad = TRUE,
                       !.rawEntry = existing.rawEntry,
                       !.weather = Lookup(existing, "weather", ""),
                       !.crewCount = IF "crewCount" \in DOMAIN existing
                                     THEN ToString(existing.crewCount) ELSE "",
                       !.visitors = Lookup(existing, "visitors", ""),
                       !.parsedData = IF hasParsedData THEN <<existing.parsedData>> ELSE <<>>,
                       !.parseStatus = IF hasParsedData THEN "done" ELSE "idle",
                       !.lastParsedText = IF hasParsedData THEN existing.rawEntry ELSE "",
                       !.saveStatus = "idle"]
       ELSE [ed EXCEPT !.isInitialLoad = TRUE,
                       !.rawEntry = "", !.weather = "", !.crewCount = "", !.visitors = "",
                       !.parsedData = <<>>, !.parseStatus = "idle",
                       !.lastParsedText = "", !.saveStatus = "idle"]

\* clearTimeout(debounceRef.current)
ClearDebounce(ed) == [ed EXCEPT !.timers = ed.timers \ SetOf(ed.debounceRef)]

\* the timer the auto-save effect sets: the values its callback closes over
NewTimer(ed) ==
    [projectId |-> ed.projectId, selectedDate |-> ed.selectedDate,
     rawEntry |-> ed.rawEntry, weather |-> ed.weather,
     crewCount |-> ed.crewCount, visitors |-> ed.visitors]

\* !rawEntry.trim() && !weather && !crewCount && !visitors
NothingToSave(ed) ==
    Trim(ed.rawEntry) = "" /\ ed.weather = "" /\ ed.crewCount = "" /\ ed.visitors = ""

\* mutant: the effect neither returns a cleanup nor clears the timer it set
AutoSaveEffect_noCancel(ed) ==
    IF ed.isInitialLoad \/ NothingToSave(ed)
    THEN [ed EXCEPT !.cleanup = FALSE]
    ELSE [ed EXCEPT !.timers = ed.timers \cup {NewTimer(ed)},
                    !.savedTimer = FALSE,
                    !.saveStatus = "idle",
                    !.debounceRef = <<NewTimer(ed)>>,
                    !.cleanup = TRUE]

\* the effect "Debounced auto-save" when one of its dependencies has changed:
\* the cleanup of its last run, then its body
AutoSaveEffect(ed) ==
    LET cleaned == IF ed.cleanup THEN ClearDebounce(ed) ELSE ed
    IN IF cleaned.isInitialLoad \/ NothingToSave(cleaned)
       THEN [cleaned EXCEPT !.cleanup = FALSE]
       ELSE [cleaned EXCEPT !.timers = ClearDebounce(cleaned).timers \cup {NewTimer(cleaned)},
                            !.savedTimer = FALSE,
                            !.saveStatus = "idle",
                            !.debounceRef = <<NewTimer(cleaned)>>,
                            !.cleanup = TRUE]

\* the page is mounted: the project is loaded, then the log of today
OpenEditor ==
    /\ editor = NoEditor
    /\ editor' = AutoSaveEffect(LoadLog(
                     [open |-> TRUE, projectId |-> EditorProjectId, selectedDate |-> Today(now),
                      rawEntry |-> "", weather |-> "", crewCount |-> "", visitors |-> "",
                      saveStatus |-> "idle", parsedData |-> <<>>, parseStatus |-> "idle",
                      isInitialLoad |-> TRUE, lastParsedText |-> "",
                      timers |-> {}, debounceRef |-> <<>>, cleanup |-> FALSE,
                      savedTimer |-> FALSE, requests |-> <<>>, edits |-> 0,
                      lastSubmitted |-> "", lastRequest |-> <<>>],
                     localStorage))
    /\ UNCHANGED <<localStorage, now, detectText, detectFound, endpoint, channelView>>

\* the requestAnimationFrame callback of the load effect
ClearInitialLoad ==
    /\ editor.open
    /\ editor.isInitialLoad
    /\ editor' = [editor EXCEPT !.isInitialLoad = FALSE]
    /\ UNCHANGED <<localStorage, now, detectText, detectFound, endpoint, channelView>>

\* what is typed and chosen in the fields
InputEntries ==
    {"", "Short day",
     "Poured the slab on the east side, pump truck left at noon.",
     "Rain all day. Sent the framing crew home at ten, no deliveries."}

InputWeathers == {"Rain"}

InputCrewCounts == {"6"}

InputVisitors == {"Owner"}

\* the dates picked: a date with a seeded log, and today
InputDates == {"2026-02-03", Today(now)}

\* the user acts: at most MaxEdits times, and while fewer than MaxRequests
\* parse requests are in flight
UserActs ==
    /\ editor.open
    /\ editor.edits < MaxEdits
    /\ Len(editor.requests) < MaxRequests

\* onChange of a field: the state is set and the auto-save effect runs
SetField(field, value) ==
    /\ UserActs
    /\ editor[field] # value
    /\ editor' = AutoSaveEffect([editor EXCEPT ![field] = value, !.edits = @ + 1])

EditRawEntry ==
    /\ \E value \in InputEntries : SetField("rawEntry", value)
    /\ UNCHANGED <<localStorage, now, detectText, detectFound, endpoint, channelView>>

EditWeather ==
    /\ \E value \in InputWeathers : SetField("weather", value)
    /\ UNCHANGED <<localStorage, now, detectText, detectFound, endpoint, channelView>>

EditCrewCount ==
    /\ \E value \in InputCrewCounts : SetField("crewCount", value)
    /\ UNCHANGED <<localStorage, now, detectText, detectFound, endpoint, channelView>>

EditVisitors ==
    /\ \E value \in InputVisitors : SetField("visitors", value)
    /\ UNCHANGED <<localStorage, now, detectText, detectFound, endpoint, channelView>>

\* onChange of the date picker: the load effect runs for the new date, the
\* auto-save effect runs its cleanup and finds isInitialLoadRef set
ChangeDate ==
    /\ UserActs
    /\ \E date \in InputDates :
           /\ date # editor.selectedDate
           /\ editor' = AutoSaveEffect(LoadLog([editor EXCEPT !.selectedDate = date,
                                                               !.edits = @ + 1],
                                               localStorage))
    /\ UNCHANGED <<localStorage, now, detectText, detectFound, endpoint, channelView>>

\* the updates literal of the auto-save callback
TimerUpdates(timer) ==
    [values |-> [k \in {"rawEntry"}
                        \cup (IF timer.weather # "" THEN {"weather"} ELSE {})
                        \cup (IF timer.crewCount # "" THEN {"crewCount"} ELSE {})
                        \cup (IF timer.visitors # "" THEN {"visitors"} ELSE {}) |->
                    CASE k = "rawEntry" -> timer.rawEntry
                      [] k = "weather" -> timer.weather
                      [] k = "crewCount" -> ParseInt(timer.crewCount)
                      [] OTHER -> timer.visitors],
     undefinedKeys |-> (IF timer.weather = "" THEN {"weather"} ELSE {})
                           \cup (IF timer.crewCount = "" THEN {"crewCount"} ELSE {})
                           \cup (IF timer.visitors = "" THEN {"visitors"} ELSE {})]

\* the parse request triggerParsing sends from the closure of the timer
NewRequest(timer) ==
    [rawEntry |-> timer.rawEntry, projectId |-> timer.projectId,
     selectedDate |-> timer.selectedDate, weather |-> timer.weather,
     crewCount |-> timer.crewCount]

\* the record of the request sent from the closure of the timer
Submitted(ed, timer) ==
    [rawEntry |-> timer.rawEntry, projectId |-> timer.projectId,
     selectedDate |-> timer.selectedDate, outcome |-> "in flight",
     overlapped |-> \E i \in DOMAIN ed.requests :
                        /\ ed.requests[i].projectId = timer.projectId
                        /\ ed.requests[i].selectedDate = timer.selectedDate]

\* mutant: lastParsedTextRef is not set when the request is sent
triggerParsing_refNotSet(ed, timer) ==
    IF Len(Trim(timer.rawEntry)) < MinParseLength THEN ed
    ELSE IF timer.rawEntry = ed.lastParsedText THEN ed
    ELSE [ed EXCEPT !.parseStatus = "parsing",
                    !.requests = Append(ed.requests, NewRequest(timer)),
                    !.lastSubmitted = timer.rawEntry,
                    !.lastRequest = <<Submitted(ed, timer)>>]

\* triggerParsing(text) up to its first await
triggerParsing(ed, timer) ==
    IF Len(Trim(timer.rawEntry)) < MinParseLength THEN ed
    ELSE IF timer.rawEntry = ed.lastParsedText THEN ed
    ELSE [ed EXCEPT !.parseStatus = "parsing",
                    !.lastParsedText = timer.rawEntry,
                    !.requests = Append(ed.requests, NewRequest(timer)),
                    !.lastSubmitted = timer.rawEntry,
                    !.lastRequest = <<Submitted(ed, timer)>>]

\* the editor after the state updates of a callback: an unmounted component
\* keeps its refs and drops the updates of its state
SetState(ed) ==
    IF editor.open THEN ed
    ELSE [ed EXCEPT !.saveStatus = editor.saveStatus,
                    !.parseStatus = editor.parseStatus,
                    !.parsedData = editor.parsedData,
                    !.weather = editor.weather,
                    !.crewCount = editor.crewCount]

\* mutant: the callback saves only while no parse request is in flight
autoSave_unlessParsing(timer) ==
    /\ IF editor.parseStatus = "parsing"
       THEN UNCHANGED <<localStorage, now>>
       ELSE upsertDailyLog(timer.projectId, timer.selectedDate, TimerUpdates(timer))
    /\ editor' = SetState(triggerParsing([editor EXCEPT !.timers = editor.timers \ {timer},
                                                        !.saveStatus = "saved",
                                                        !.savedTimer = TRUE],
                                         timer))

\* the callback of the auto-save timer
autoSave(timer) ==
    /\ upsertDailyLog(timer.projectId, timer.selectedDate, TimerUpdates(timer))
    /\ editor' = SetState(triggerParsing([editor EXCEPT !.timers = editor.timers \ {timer},
                                                        !.saveStatus = "saved",
                                                        !.savedTimer = TRUE],
                                         timer))

\* a pending auto-save timer fires
TimerFires ==
    /\ editor # NoEditor
    /\ \E timer \in editor.timers : autoSave(timer)
    /\ UNCHANGED <<detectText, detectFound, endpoint, channelView>>

\* the timer of savedTimerRef fires
SavedTimerFires ==
    /\ editor # NoEditor
    /\ editor.savedTimer
    /\ editor' = SetState([editor EXCEPT !.savedTimer = FALSE, !.saveStatus = "idle"])
    /\ UNCHANGED <<localStorage, now, detectText, detectFound, endpoint, channelView>>

\* requests without the i-th
WithoutRequest(requests, i) == SubSeq(requests, 1, i - 1) \o SubSeq(requests, i + 1, Len(requests))

\* the editor when the promise of its i-th request in flight settles
Settled(ed, i, outcome) ==
    [ed EXCEPT !.requests = WithoutRequest(ed.requests, i),
               !.lastRequest = IF /\ i = Len(ed.requests)
                                  /\ ed.lastRequest # <<>>
                                  /\ ed.lastRequest[1].outcome = "in flight"
                               THEN <<[ed.lastRequest[1] EXCEPT !.outcome = outcome]>>
                               ELSE ed.lastRequest]

\* the ParsedLogData the parse endpoint answers a text with
ParsedDataFor(rawEntry) ==
    IF rawEntry = "Rain all day. Sent the framing crew home at ten, no deliveries."
    THEN [weather |-> [condition |-> "Rain", details |-> "Rain all day"],
          crew |-> << [company |-> "Own crew", count |-> 6] >>]
    ELSE [crew |-> << [company |-> "Own crew", count |-> 6] >>,
          workCompleted |-> << [description |-> "Slab poured", location |-> "East side"] >>]

\* weatherOptions.find(w => w.toLowerCase() === condition.toLowerCase()), "" for undefined
MatchedWeather(condition) ==
    LET found == {i \in 1..Len(weatherOptions) :
                      ToLowerCase(weatherOptions[i]) = ToLowerCase(condition)}
    IN IF found = {} THEN "" ELSE weatherOptions[CHOOSE i \in found : \A j \in found : i <= j]

\* data.crew.reduce((sum, c) => sum + c.count, 0)
RECURSIVE CrewTotal(_)
CrewTotal(crew) == IF crew = <<>> THEN 0 ELSE crew[1].count + CrewTotal(Tail(crew))

\* the fields after the auto-fill of weather and crew count, which reads
\* weather and crewCount from the closure of the request
AutoFill(ed, request, data) ==
    LET weatherFilled ==
            IF /\ "weather" \in DOMAIN data
               /\ request.weather = ""
               /\ MatchedWeather(data.weather.condition) # ""
            THEN [ed EXCEPT !.weather = MatchedWeather(data.weather.condition)]
            ELSE ed
    IN IF /\ "crew" \in DOMAIN data
          /\ Len(data.crew) > 0
          /\ request.crewCount = ""
          /\ CrewTotal(data.crew) > 0
       THEN [weatherFilled EXCEPT !.crewCount = ToString(CrewTotal(data.crew))]
       ELSE weatherFilled

\* the response of a parse request is ok and its body is a ParsedLogData
ParseSucceeds ==
    /\ editor # NoEditor
    /\ \E i \in DOMAIN editor.requests :
           LET request == editor.requests[i]
               data == ParsedDataFor(request.rawEntry)
               shown == [Settled(editor, i, "ok") EXCEPT
                                       !.parsedData = <<data>>,
                                       !.parseStatus = "done"]
               filled == AutoFill(shown, request, data)
           IN /\ updateDailyLogParsedData(request.projectId, request.selectedDate, data)
              /\ editor' = IF /\ editor.open
                              /\ (filled.weather # editor.weather
                                      \/ filled.crewCount # editor.crewCount)
                           THEN AutoSaveEffect(filled)
                           ELSE SetState(filled)
    /\ UNCHANGED <<detectText, detectFound, endpoint, channelView>>

\* the ways a parse request fails: fetch rejects, the response is not ok,
\* res.json() rejects
ParseFailures == {"rejected", "not ok", "malformed JSON"}

\* mutant: the catch block also stores an empty parsedData for the log
ParseFails_storesEmptyData ==
    /\ editor # NoEditor
    /\ \E i \in DOMAIN editor.requests, failure \in ParseFailures :
           /\ editor' = SetState([Settled(editor, i, "failed") EXCEPT
                                                !.parsedData = <<>>,
                                                !.parseStatus = "error"])
           /\ updateDailyLogParsedData(editor.requests[i].projectId,
                                       editor.requests[i].selectedDate, EmptyRecord)
    /\ UNCHANGED <<detectText, detectFound, endpoint, channelView>>

\* a parse request fails: the catch block runs
ParseFails ==
    /\ editor # NoEditor
    /\ \E i \in DOMAIN editor.requests, failure \in ParseFailures :
           editor' = SetState([Settled(editor, i, "failed") EXCEPT
                                             !.parseStatus = "error"])
    /\ UNCHANGED <<localStorage, now, detectText, detectFound, endpoint, channelView>>

NextEditor ==
    \/ OpenEditor
    \/ ClearInitialLoad
    \/ EditRawEntry
    \/ EditWeather
    \/ EditCrewCount
    \/ EditVisitors
    \/ ChangeDate
    \/ TimerFires
    \/ SavedTimerFires
    \/ ParseSucceeds
    \/ ParseFails

SpecEditor == Init /\ [][NextEditor]_vars

\* the page is left: the component unmounts and React runs the cleanup the
\* auto-save effect returned, the only cleanup of the page
CloseEditor ==
    /\ editor # NoEditor
    /\ editor.open
    /\ editor' = [(IF editor.cleanup THEN ClearDebounce(editor) ELSE editor)
                      EXCEPT !.open = FALSE, !.cleanup = FALSE]
    /\ UNCHANGED <<localStorage, now, detectText, detectFound, endpoint, channelView>>

NextUnmount ==
    \/ NextEditor
    \/ CloseEditor

SpecUnmount == Init /\ [][NextUnmount]_vars

\* ---------------------------------------------------------------------------
\* The parse endpoint (POST /api/parse-log)
\* ---------------------------------------------------------------------------
\* A request is a record
\*   apiKey          process.env.ANTHROPIC_API_KEY is set;
\*   body            "invalid" when request.json() rejects, "null" for the
\*                   JSON null, "object" otherwise;
\*   rawEntry        the property of the body: [type |-> "undefined"],
\*                   [type |-> "null"], [type |-> "string", value |-> ...] or
\*                   [type |-> "number", value |-> ...];
\*   scheduleItems   <<>> for undefined, <<items>> otherwise.
\* The answer of the downstream call is "text" (a text block holding JSON),
\* "no text" (no text block), "no JSON" (a text block JSON.parse rejects) or
\* "throws".

\* the shortest entry the endpoint parses
MinEntryLength == 50

\* !rawEntry
FalsyEntry(rawEntry) ==
    \/ rawEntry.type \in {"undefined", "null"}
    \/ rawEntry.type = "string" /\ rawEntry.value = ""
    \/ rawEntry.type = "number" /\ rawEntry.value = 0

\* mutant: the length is taken of the entry as sent, not of the trimmed one
POST_untrimmed(request, answer) ==
    IF ~request.apiKey THEN [status |-> 500, downstream |-> FALSE]
    ELSE IF request.body # "object" THEN [status |-> 500, downstream |-> FALSE]
    ELSE IF FalsyEntry(request.rawEntry) THEN [status |-> 400, downstream |-> FALSE]
    ELSE IF request.rawEntry.type # "string" THEN [status |-> 500, downstream |-> FALSE]
    ELSE IF Len(request.rawEntry.value) < MinEntryLength
         THEN [status |-> 400, downstream |-> FALSE]
    ELSE IF request.scheduleItems = <<>> THEN [status |-> 500, downstream |-> FALSE]
    ELSE IF answer = "text" THEN [status |-> 200, downstream |-> TRUE]
    ELSE [status |-> 500, downstream |-> TRUE]

\* POST: the status of the response, and whether client.messages.create was
\* called. An exception (request.json() rejects, the body is null, rawEntry
\* has no trim, scheduleItems is undefined, the downstream call or JSON.parse
\* throws) is caught and answered with 500.
POST(request, answer) ==
    IF ~request.apiKey THEN [status |-> 500, downstream |-> FALSE]
    ELSE IF request.body # "object" THEN [status |-> 500, downstream |-> FALSE]
    ELSE IF FalsyEntry(request.rawEntry) THEN [status |-> 400, downstream |-> FALSE]
    ELSE IF request.rawEntry.type # "string" THEN [status |-> 500, downstream |-> FALSE]
    ELSE IF Len(Trim(request.rawEntry.value)) < MinEntryLength
         THEN [status |-> 400, downstream |-> FALSE]
    ELSE IF request.scheduleItems = <<>> THEN [status |-> 500, downstream |-> FALSE]
    ELSE IF answer = "text" THEN [status |-> 200, downstream |-> TRUE]
    ELSE [status |-> 500, downstream |-> TRUE]

\* the rawEntry properties sent: none, null, numbers, and strings that are
\* empty, short, long, blank and long only with the blanks around them
InputRawEntries ==
    {[type |-> "undefined"], [type |-> "null"],
     [type |-> "number", value |-> 0], [type |-> "number", value |-> 12345]}
        \cup {[type |-> "string", value |-> value] :
                  value \in InputEntries \cup
                      {"                                                            ",
                       "     Poured the slab, pump truck left at noon.          "}}

\* the scheduleItems properties sent: none, an empty list, the seeded items
InputScheduleItems == {<<>>, << <<>> >>, <<seedScheduleItems>>}

InputAnswers == {"text", "no text", "no JSON", "throws"}

\* a request is sent to the endpoint and answered
PostParseLog ==
    /\ \E apiKey \in BOOLEAN, body \in {"object", "null", "invalid"},
          rawEntry \in InputRawEntries, scheduleItems \in InputScheduleItems,
          answer \in InputAnswers :
           LET request == [apiKey |-> apiKey, body |-> body, rawEntry |-> rawEntry,
                           scheduleItems |-> scheduleItems]
           IN endpoint' = [called |-> TRUE, request |-> request, answer |-> answer,
                           response |-> POST(request, answer)]
    /\ UNCHANGED <<localStorage, now, editor, detectText, detectFound, channelView>>

NextEndpoint == PostParseLog

SpecEndpoint == Init /\ [][NextEndpoint]_vars

\* ---------------------------------------------------------------------------
\* A tag-filter channel of the project page (components/ChannelView.tsx)
\*   channelView.newMessage   the text in the compose box
\*   channelView.isSending    set by a send, cleared 100 ms later
\*   channelView.sent         the messages sent from the compose box, in order
\* ---------------------------------------------------------------------------
ChannelProjectId == "project-1"

\* the tag-filter channels the user opens
InputTagChannels == {"rfis-submittals", "safety"}

\* what the user types into the compose box
InputDrafts == {"", "   ", "ok", " ok ", "Inspector is here", "RFI sent to the architect"}

\* the channel is mounted: its effect marks the channel as read
OpenChannel ==
    /\ channelView = NoChannel
    /\ \E userId \in UserIds, channelId \in InputTagChannels :
           /\ getChannelById(channelId).type = "tag-filter"
           /\ channelView' = [open |-> TRUE, projectId |-> ChannelProjectId,
                              channelConfig |-> getChannelById(channelId),
                              userId |-> userId, newMessage |-> "",
                              isSending |-> FALSE, sent |-> <<>>]
           /\ markChannelAsRead(userId, ChannelProjectId, channelId)
    /\ UNCHANGED <<editor, detectText, detectFound, endpoint>>

\* onChange of the compose box
TypeMessage ==
    /\ channelView # NoChannel
    /\ \E draft \in InputDrafts :
           /\ draft # channelView.newMessage
           /\ channelView' = [channelView EXCEPT !.newMessage = draft]
    /\ UNCHANGED <<localStorage, now, editor, detectText, detectFound, endpoint>>

\* ChannelView.handleSendMessage up to its timer: createMessage to the
\* general thread, then markChannelAsRead
handleSendMessage(view) ==
    LET user == UserById(view.userId)
        stored == getFromStorage(localStorage, KEYS.messages, <<>>)
        newMessage == [id |-> "msg-" \o DateNowString(now),
                       projectId |-> view.projectId,
                       scheduleItemId |-> Null,
                       authorId |-> user.id,
                       authorName |-> user.name,
                       authorRole |-> user.role,
                       content |-> Trim(view.newMessage),
                       createdAt |-> ToISOString(now)]
        allTimestamps == getFromStorage(localStorage, ChannelReadKey, EmptyRecord)
        key == view.projectId \o ":" \o view.channelConfig.id
    IN /\ Trim(view.newMessage) # ""
       /\ ~view.isSending
       /\ Len(stored) < Len(seedMessages) + MaxNewMessages
       /\ localStorage' =
              Assign(Assign(initializeStore(localStorage), KEYS.messages,
                            Append(stored, newMessage)),
                     ChannelReadKey,
                     Assign(allTimestamps, user.id,
                            Assign(UserTimestamps(allTimestamps, user.id), key,
                                   ToISOString(now))))
       /\ channelView' = [view EXCEPT !.isSending = TRUE, !.newMessage = "",
                                      !.sent = Append(@, newMessage)]

SendMessage ==
    /\ channelView # NoChannel
    /\ handleSendMessage(channelView)
    /\ UNCHANGED <<now, editor, detectText, detectFound, endpoint>>

\* the timer of handleSendMessage: the page passes no onDataChange
SendTimerFires ==
    /\ channelView # NoChannel
    /\ channelView.isSending
    /\ channelView' = [channelView EXCEPT !.isSending = FALSE]
    /\ UNCHANGED <<localStorage, now, editor, detectText, detectFound, endpoint>>

NextChannel ==
    \/ Tick
    \/ OpenChannel
    \/ TypeMessage
    \/ SendMessage
    \/ SendTimerFires

SpecChannel == Init /\ [][NextChannel]_vars

\* ---------------------------------------------------------------------------
\* Tag detection on typed texts
\* ---------------------------------------------------------------------------
\* pieces of message text: upper and lower case, keywords, parts of keywords
\* and a word that merely contains a keyword
TextFragments == {"Roof", "ing", "RFI", "fall", " protection", "De", "lay", "secure"}

\* a call detectTags(text) with the text typed so far and one more fragment
DetectTags ==
    /\ \E fragment \in TextFragments :
           /\ Len(detectText \o fragment) <= MaxTextLen
           /\ detectText' = detectText \o fragment
           /\ detectFound' = detectTags(detectText \o fragment)
    /\ UNCHANGED <<localStorage, now, editor, endpoint, channelView>>

NextTags == DetectTags

SpecTags == Init /\ [][NextTags]_vars

\* ---------------------------------------------------------------------------
\* Vocabulary of the properties
\* ---------------------------------------------------------------------------
StoredMessages == getFromStorage(localStorage, KEYS.messages, <<>>)

StoredItems == getFromStorage(localStorage, KEYS.scheduleItems, <<>>)

ThreadLedger == getFromStorage(localStorage, KEYS.readTimestamps, EmptyRecord)

ChannelLedger == getFromStorage(localStorage, ChannelReadKey, EmptyRecord)

\* every <<projectId, scheduleItemId>> that names a thread of some project
AllThreads ==
    {<<p, Null>> : p \in ProjectIds}
    \cup {<<StoredItems[i].projectId, StoredItems[i].id>> : i \in 1..Len(StoredItems)}
    \cup {<<StoredMessages[i].projectId, StoredMessages[i].scheduleItemId>> :
              i \in 1..Len(StoredMessages)}

\* positions of the stored messages of a thread / of a project
ThreadIndices(projectId, scheduleItemId) ==
    {i \in 1..Len(StoredMessages) : /\ StoredMessages[i].projectId = projectId
                                    /\ StoredMessages[i].scheduleItemId = scheduleItemId}

ProjectIndices(projectId) ==
    {i \in 1..Len(StoredMessages) : StoredMessages[i].projectId = projectId}

TagIdSetOf == [text \in KnownTexts |-> {detectTagsOf[text][i].id : i \in 1..Len(detectTagsOf[text])}]

\* the channel-ledger cutoff of (userId, projectId, channelId), 0 when absent
ChannelCutoff(userId, projectId, channelId) ==
    IF HasEntry(ChannelLedger, userId, projectId \o ":" \o channelId)
    THEN getTime[ChannelLedger[userId][projectId \o ":" \o channelId]]
    ELSE 0

ChannelsOfType(types) == {ch \in SetOf(CHANNELS) : ch.type \in types}

\* C1: the two read ledgers are independent: a markThreadAsRead step leaves
\* every channel unread count unchanged, and a markChannelAsRead step leaves
\* every thread unread count unchanged.
C1_LedgersIndependent ==
    [][/\ MarkThreadAsRead =>
            \A u \in UserIds, p \in ProjectIds, ch \in ChannelIds :
                getUnreadCountsByChannel(localStorage', u, p)[ch]
                    = getUnreadCountsByChannel(localStorage, u, p)[ch]
       /\ MarkChannelAsRead =>
            \A u \in UserIds, th \in AllThreads :
                getUnreadCountForThread(localStorage', u, th[1], th[2])
                    = getUnreadCountForThread(localStorage, u, th[1], th[2])]_vars

\* user_pm has read the thread of schedule-2 (count 0) while the schedule
\* channel, which contains that thread's message, still counts it.
C1_Witness ==
    /\ HasEntry(ThreadLedger, "user_pm", "project-1:schedule-2")
    /\ getUnreadCountForThread(localStorage, "user_pm", "project-1", "schedule-2") = 0
    /\ \E i \in ThreadIndices("project-1", "schedule-2") :
           "schedule" \in TagIdSetOf[StoredMessages[i].content]
    /\ getUnreadCountsByChannel(localStorage, "user_pm", "project-1")["schedule"] > 0

\* C2: with no thread-ledger entry, the unread count of a thread is the number
\* of its stored messages written by somebody else.
C2_NeverReadCount ==
    \A u \in UserIds, th \in AllThreads :
        ~HasEntry(ThreadLedger, u, getThreadKey(th[1], th[2])) =>
            getUnreadCountForThread(localStorage, u, th[1], th[2])
                = Cardinality({i \in ThreadIndices(th[1], th[2]) :
                                   StoredMessages[i].authorId # u})

\* a never-read general thread whose newest message is the reader's own
C2_Witness ==
    /\ Len(StoredMessages) > Len(seedMessages)
    /\ ~HasEntry(ThreadLedger, "user_pm", "project-1:general")
    /\ StoredMessages[Len(StoredMessages)].authorId = "user_pm"
    /\ StoredMessages[Len(StoredMessages)].scheduleItemId = Null
    /\ StoredMessages[Len(StoredMessages)].projectId = "project-1"
    /\ getUnreadCountForThread(localStorage, "user_pm", "project-1", Null) = 1

\* C3: with a thread-ledger entry lastRead, the unread count of a thread is the
\* number of its messages by other authors created strictly after lastRead.
C3_ReadCountStrict ==
    \A u \in UserIds, th \in AllThreads :
        HasEntry(ThreadLedger, u, getThreadKey(th[1], th[2])) =>
            getUnreadCountForThread(localStorage, u, th[1], th[2])
                = Cardinality({i \in ThreadIndices(th[1], th[2]) :
                        /\ StoredMessages[i].authorId # u
                        /\ getTime[StoredMessages[i].createdAt]
                             > getTime[ThreadLedger[u][getThreadKey(th[1], th[2])]]})

\* a message of another author created at exactly lastRead, not counted
C3_Witness ==
    /\ HasEntry(ThreadLedger, "user_pm", "project-1:general")
    /\ \E i \in ThreadIndices("project-1", Null) :
           /\ StoredMessages[i].authorId = "user_super"
           /\ StoredMessages[i].createdAt = ThreadLedger["user_pm"]["project-1:general"]
    /\ getUnreadCountForThread(localStorage, "user_pm", "project-1", Null) = 0

\* C4: right after markThreadAsRead(U, P, Th) the unread count of (U, P, Th) is 0.
C4_ZeroAfterMarkRead ==
    [][\A u \in UserIds, th \in InputThreads :
           markThreadAsRead(u, th[1], th[2]) =>
               getUnreadCountForThread(localStorage', u, th[1], th[2]) = 0]_vars

\* C5: the unread count of a tag-filter or schedule-view channel counts the
\* project's messages of every thread whose tags meet the channel's tag ids,
\* written by others, created strictly after the channel cutoff.
C5_TagChannelCount ==
    \A u \in UserIds, p \in ProjectIds :
        \A ch \in ChannelsOfType({"tag-filter", "schedule-view"}) :
            getUnreadCountsByChannel(localStorage, u, p)[ch.id]
                = Cardinality({i \in ProjectIndices(p) :
                        /\ TagIdSetOf[StoredMessages[i].content] \cap SetOf(ch.tagIds) # {}
                        /\ StoredMessages[i].authorId # u
                        /\ getTime[StoredMessages[i].createdAt] > ChannelCutoff(u, p, ch.id)})

\* user_pm has opened the schedule channel and it counts a later message that
\* sits in a schedule-item thread
C5_Witness ==
    /\ HasEntry(ChannelLedger, "user_pm", "project-1:schedule")
    /\ getUnreadCountsByChannel(localStorage, "user_pm", "project-1")["schedule"] = 1
    /\ \E i \in ProjectIndices("project-1") :
           /\ StoredMessages[i].scheduleItemId # Null
           /\ StoredMessages[i].authorId # "user_pm"
           /\ "schedule" \in TagIdSetOf[StoredMessages[i].content]
           /\ getTime[StoredMessages[i].createdAt]
                > ChannelCutoff("user_pm", "project-1", "schedule")

\* C6: the unread count of the general channel counts the project's messages
\* with scheduleItemId null, written by others, created strictly after the
\* channel cutoff; schedule-item messages never contribute.
C6_GeneralChannelCount ==
    \A u \in UserIds, p \in ProjectIds :
        getUnreadCountsByChannel(localStorage, u, p)["general"]
            = Cardinality({i \in ThreadIndices(p, Null) :
                    /\ StoredMessages[i].authorId # u
                    /\ getTime[StoredMessages[i].createdAt] > ChannelCutoff(u, p, "general")})

\* the general channel was opened; a later message of another author in a
\* schedule-item thread does not show in its count
C6_Witness ==
    /\ HasEntry(ChannelLedger, "user_pm", "project-1:general")
    /\ getUnreadCountsByChannel(localStorage, "user_pm", "project-1")["general"] = 0
    /\ \E i \in ProjectIndices("project-1") :
           /\ StoredMessages[i].scheduleItemId # Null
           /\ StoredMessages[i].authorId # "user_pm"
           /\ getTime[StoredMessages[i].createdAt]
                > ChannelCutoff("user_pm", "project-1", "general")

\* C7: a navigation channel always reports 0.
C7_NavigationZero ==
    \A u \in UserIds, p \in ProjectIds :
        \A ch \in ChannelsOfType({"navigation"}) :
            getUnreadCountsByChannel(localStorage, u, p)[ch.id] = 0

\* the daily-log channel holds a ledger entry older than a message of another author
C7_Witness ==
    /\ HasEntry(ChannelLedger, "user_pm", "project-1:daily-log")
    /\ \E i \in ProjectIndices("project-1") :
           /\ StoredMessages[i].authorId # "user_pm"
           /\ getTime[StoredMessages[i].createdAt]
                > ChannelCutoff("user_pm", "project-1", "daily-log")
    /\ getUnreadCountsByChannel(localStorage, "user_pm", "project-1")["daily-log"] = 0

\* C8: a project message is in a tag-filter channel's view iff one of its
\* detected tag ids is one of the channel's tag ids.
C8_FilteredIffTagged ==
    \A p \in ProjectIds :
        \A ch \in ChannelsOfType({"tag-filter"}) :
            LET view == SetOf(filteredMessages(localStorage, p, ch))
            IN /\ \A i \in ProjectIndices(p) :
                      (StoredMessages[i] \in view)
                          <=> (TagIdSetOf[StoredMessages[i].content] \cap SetOf(ch.tagIds) # {})
               /\ view \subseteq {StoredMessages[i] : i \in ProjectIndices(p)}

\* rfis-submittals shows a message tagged inspection but not rfi, and leaves
\* out the general-thread message msg-1
C8_Witness ==
    LET view == SetOf(filteredMessages(localStorage, "project-1",
                                       getChannelById("rfis-submittals")))
    IN /\ \E i \in ProjectIndices("project-1") :
              /\ TagIdSetOf[StoredMessages[i].content] = {"inspection"}
              /\ StoredMessages[i] \in view
       /\ \E i \in ThreadIndices("project-1", Null) :
              /\ StoredMessages[i].id = "msg-1"
              /\ StoredMessages[i] \notin view

\* C9: when neither ledger has an entry for the general thread / channel of a
\* project, the thread count and the general-channel count agree.
C9_NeverReadDefaultsAgree ==
    \A u \in UserIds, p \in ProjectIds :
        (/\ ~HasEntry(ThreadLedger, u, getThreadKey(p, Null))
         /\ ~HasEntry(ChannelLedger, u, p \o ":general"))
            => getUnreadCountForThread(localStorage, u, p, Null)
                   = getUnreadCountsByChannel(localStorage, u, p)["general"]

\* a never-read general thread with a seeded and a new message of another author
C9_Witness ==
    /\ ~HasEntry(ThreadLedger, "user_pm", "project-1:general")
    /\ ~HasEntry(ChannelLedger, "user_pm", "project-1:general")
    /\ Len(StoredMessages) > Len(seedMessages)
    /\ getUnreadCountForThread(localStorage, "user_pm", "project-1", Null) = 2
    /\ getUnreadCountsByChannel(localStorage, "user_pm", "project-1")["general"] = 2

\* the unread counts of the stored items' threads of project p, summed item by item
ItemThreadsUnread(u, p) ==
    LET acc[i \in 0..Len(StoredItems)] ==
            IF i = 0 THEN 0
            ELSE acc[i - 1]
                 + (IF StoredItems[i].projectId = p
                    THEN getUnreadCountForThread(localStorage, u, p, StoredItems[i].id)
                    ELSE 0)
    IN acc[Len(StoredItems)]

\* the total of every project of the user is the general thread's unread count
\* plus the unread counts of the threads of the project's schedule items
C10_TotalIsThreadSum ==
    \A u \in UserIds :
        LET totals == projectUnreadCounts(localStorage, u)
        IN /\ DOMAIN totals = SetOf(UserById(u).projectIds) \cap ProjectIds
           /\ \A p \in DOMAIN totals :
                  totals[p] = getUnreadCountForThread(localStorage, u, p, Null)
                              + ItemThreadsUnread(u, p)

\* a step of markChannelAsRead leaves every total as it was
C10_ChannelMarkKeepsTotal ==
    \A u \in UserIds :
        MarkChannelAsRead =>
            projectUnreadCounts(localStorage', u) = projectUnreadCounts(localStorage, u)

\* no total exceeds the number of the project's stored messages written by
\* others: no message is counted twice
C10_CountedAtMostOnce ==
    \A u \in UserIds :
        LET totals == projectUnreadCounts(localStorage, u)
        IN \A p \in DOMAIN totals :
               totals[p] <= Cardinality({i \in ProjectIndices(p) :
                                             StoredMessages[i].authorId # u})

\* C10: the unread total of a project for user U (ProjectsPage.loadProjectList)
\* is getUnreadCountForThread(U, P, null) plus the sum of
\* getUnreadCountForThread(U, P, item.id) over the schedule items of P; channel
\* counts are no part of it, so markChannelAsRead never changes the total and a
\* message is counted at most once.
C10_ProjectTotal ==
    /\ [](C10_TotalIsThreadSum /\ C10_CountedAtMostOnce)
    /\ [][C10_ChannelMarkKeepsTotal]_vars

\* a keyword of table entry d occurs in the lower-cased text
KeywordOccurs(d, lower) ==
    \E k \in 1..Len(TAG_DEFINITIONS[d].keywords) :
        LET kw == TAG_DEFINITIONS[d].keywords[k]
        IN \E i \in 1..Len(lower) :
               i + Len(kw) - 1 <= Len(lower) /\ SubSeq(lower, i, i + Len(kw) - 1) = kw

\* C11: detectTags(text) holds the tag of a table entry exactly once when a
\* keyword of the entry occurs as a substring of the lower-cased text, and not
\* at all otherwise; it is empty for the empty text and for a text without any
\* keyword.
C11_TagOncePerEntry ==
    LET lower == ToLowerCase(detectText)
        Occurrences(d) == Cardinality({i \in 1..Len(detectFound) :
                                           detectFound[i].id = TAG_DEFINITIONS[d].id})
        entries == {d \in 1..Len(TAG_DEFINITIONS) : KeywordOccurs(d, lower)}
    IN /\ \A d \in 1..Len(TAG_DEFINITIONS) :
              Occurrences(d) = IF d \in entries THEN 1 ELSE 0
       /\ Len(detectFound) = Cardinality(entries)
       /\ (detectText = "" \/ entries = {}) => detectFound = <<>>

\* "RoofingRoof": upper case, the keywords roof and roofing of one entry, one
\* of them twice, and one tag
C11_Witness ==
    /\ detectText = "RoofingRoof"
    /\ detectFound = <<[id |-> "roofing", label |-> "Roofing"]>>

\* "secure" holds the keyword cure inside a longer word
C11_WitnessSubstring ==
    /\ detectText = "secure"
    /\ detectFound = <<[id |-> "concrete", label |-> "Concrete"]>>

\* the two-word keyword "fall protection", and none without the blank
C11_WitnessTwoWords ==
    /\ detectText = "fall protection"
    /\ detectFound = <<[id |-> "safety", label |-> "Safety"]>>

StoredLogs == getFromStorage(localStorage, KEYS.dailyLogs, <<>>)

\* positions of the stored logs of (projectId, date) in the storage content ls
LogIndices(ls, projectId, date) ==
    LET logs == getFromStorage(ls, KEYS.dailyLogs, <<>>)
    IN {i \in 1..Len(logs) : logs[i].projectId = projectId /\ logs[i].date = date}

\* C12: after any sequence of upsertDailyLog and updateDailyLogParsedData calls
\* from the seeded store, the daily-log collection holds at most one record
\* for each (projectId, date).
C12_OneLogPerDate ==
    \A i, j \in 1..Len(StoredLogs) :
        (StoredLogs[i].projectId = StoredLogs[j].projectId
         /\ StoredLogs[i].date = StoredLogs[j].date) => i = j

\* a seeded log was written again, a log of a new date was inserted and
\* written again, and parsed data was stored on it
C12_Witness ==
    /\ Len(StoredLogs) = Len(seedDailyLogs) + 1
    /\ StoredLogs[1].rawEntry = "Rain all day"
    /\ StoredLogs[3].date = "2026-02-10"
    /\ StoredLogs[3].updatedAt # StoredLogs[3].createdAt
    /\ "parsedData" \in DOMAIN StoredLogs[3]

\* the record read back after upsertDailyLog(key, updates) carries the
\* rawEntry, weather, crewCount and visitors of updates, a field without a
\* value being absent, and it is the only record of its (project, date)
RoundTrips(projectId, date, updates) ==
    LET log == getDailyLogByDate(localStorage', projectId, date)
    IN /\ Cardinality(LogIndices(localStorage', projectId, date)) = 1
       /\ \A field \in {"rawEntry", "weather", "crewCount", "visitors"} :
              IF field \in DOMAIN updates.values
              THEN field \in DOMAIN log /\ log[field] = updates.values[field]
              ELSE field \notin DOMAIN log

\* C13: upsertDailyLog(p, d, entry) followed by getDailyLogByDate(p, d) returns
\* a record whose rawEntry, weather, crewCount and visitors equal those of
\* entry, an omitted optional field reading back as absent also when the
\* record existed before with that field set, and exactly one record exists
\* for (p, d).
C13_UpsertRoundTrip ==
    [][\A key \in InputLogKeys, updates \in InputUpdates :
           upsertDailyLog(key[1], key[2], updates) =>
               RoundTrips(key[1], key[2], updates)]_vars

\* the round trip of the entries that name every optional field, with a value
\* or with undefined
C13_RoundTripOfFullEntries ==
    [][\A key \in InputLogKeys, updates \in InputUpdates :
           (/\ DOMAIN updates.values \cup updates.undefinedKeys
                   = {"rawEntry", "weather", "crewCount", "visitors"}
            /\ upsertDailyLog(key[1], key[2], updates)) =>
               RoundTrips(key[1], key[2], updates)]_vars

\* ---------------------------------------------------------------------------
\* C14: order and status of a created schedule item
\* ---------------------------------------------------------------------------
\* the schedule items stored in ls
ItemsIn(ls) == getFromStorage(ls, KEYS.scheduleItems, <<>>)

\* the orders of the items stored for the project
ProjectOrders(ls, projectId) ==
    {item.order : item \in {i \in SetOf(ItemsIn(ls)) : i.projectId = projectId}}

\* C14: a step that stores a further schedule item appends it to the items
\* stored before, with status 'not_started' and with order 1 + the highest
\* order among the items stored for its project before the step, 1 when the
\* project had none; the items of the other projects do not enter the value.
C14_CreatedOrder ==
    [][LET before == StoredItems
           after == ItemsIn(localStorage')
           created == after[Len(after)]
           orders == ProjectOrders(localStorage, created.projectId)
       IN Len(after) > Len(before) =>
              /\ after = Append(before, created)
              /\ created.status = "not_started"
              /\ created.order = IF orders = {} THEN 1 ELSE 1 + MathMax(orders)]_vars

\* an item created in a project that has no other item, so with order 1,
\* while the other project holds items of higher order
C14_Witness ==
    \E item \in CreatedItems(localStorage) :
        /\ item.order = 1
        /\ item.status = "not_started"
        /\ ProjectOrders(localStorage, item.projectId) = {1}
        /\ \E other \in SetOf(StoredItems) :
               other.projectId # item.projectId /\ other.order > 1

\* schedule-2 was deleted and an item created afterwards: its order is past
\* the highest and the order of schedule-2 stays free
C14_WitnessGap ==
    /\ FindIndexById(StoredItems, "schedule-2") = 0
    /\ 2 \notin ProjectOrders(localStorage, "project-1")
    /\ \E item \in CreatedItems(localStorage) :
           /\ item.projectId = "project-1"
           /\ item.order = SeedMaxOrder("project-1") + 1

\* schedule-5, the last item of project-2, was deleted and an item created
\* afterwards: it takes the order schedule-5 had
C14_WitnessRefill ==
    /\ FindIndexById(StoredItems, "schedule-5") = 0
    /\ \E item \in CreatedItems(localStorage) :
           /\ item.projectId = "project-2"
           /\ item.order = SeedMaxOrder("project-2")


\* ---------------------------------------------------------------------------
\* C15: operations on an id that matches no stored schedule item
\* ---------------------------------------------------------------------------
\* ids that are looked up: seeded items, stored or deleted, and the missing id
LookedUpItemIds == {"schedule-2", "schedule-4", "schedule-5", MissingItemId}

\* C15: for an id that matches no stored schedule item, updateScheduleItemStatus
\* and updateScheduleItem return undefined and deleteScheduleItem returns
\* false, each of the three calls completes, and a step that is one of these
\* calls leaves the stored schedule items as they were.
C15_MissingIdIsNoOp ==
    [][\A itemId \in LookedUpItemIds, status \in InputStatuses, updates \in InputItemUpdates :
           FindIndexById(StoredItems, itemId) = 0 =>
               /\ updateScheduleItemStatusResult(itemId, status) = NoItem
               /\ updateScheduleItemResult(itemId, updates) = NoItem
               /\ deleteScheduleItemResult(itemId) = FALSE
               /\ ENABLED updateScheduleItemStatus(itemId, status)
               /\ ENABLED updateScheduleItem(itemId, updates)
               /\ ENABLED deleteScheduleItem(itemId)
               /\ (\/ updateScheduleItemStatus(itemId, status)
                   \/ updateScheduleItem(itemId, updates)
                   \/ deleteScheduleItem(itemId)) => ItemsIn(localStorage') = StoredItems]_vars

\* schedule-2 was deleted while other items are stored: the calls on its id,
\* as on the id never stored, find nothing
C15_Witness ==
    /\ FindIndexById(StoredItems, "schedule-2") = 0
    /\ FindIndexById(StoredItems, MissingItemId) = 0
    /\ Len(StoredItems) >= 4
    /\ CreatedItems(localStorage) # {}
    /\ deleteScheduleItemResult("schedule-2") = FALSE
    /\ \A updates \in InputItemUpdates : updateScheduleItemResult("schedule-2", updates) = NoItem

\* ---------------------------------------------------------------------------
\* C16: what deleteScheduleItem removes and what it leaves
\* ---------------------------------------------------------------------------
\* the ids deleteScheduleItem is called with
DeletedItemIds(ls) == {item.id : item \in CreatedItems(ls)} \cup {"schedule-2"}

\* a step is deleteScheduleItem(itemId) finding an item
DeletesStored(itemId) == deleteScheduleItemResult(itemId) /\ deleteScheduleItem(itemId)

\* the messages are left as they were and every project returns for the
\* thread of the id what it returned before
MessagesKept(itemId) ==
    /\ getFromStorage(localStorage', KEYS.messages, <<>>) = StoredMessages
    /\ \A projectId \in ProjectIds :
           getMessagesForThread(localStorage', projectId, itemId)
               = getMessagesForThread(localStorage, projectId, itemId)

\* C16: a deleteScheduleItem(id) that finds an item removes exactly the one
\* schedule item with that id (afterwards no stored item has the id, one item
\* less is stored and the others are kept in their order) and leaves the
\* message collection unchanged, so that getMessagesForThread(P, id) returns
\* the same messages after the deletion as before it.
C16_DeleteRemovesThatItem ==
    [][\A itemId \in DeletedItemIds(localStorage) :
           DeletesStored(itemId) =>
               /\ ItemsIn(localStorage')
                      = SelectSeq(StoredItems, LAMBDA item : item.id # itemId)
               /\ Len(ItemsIn(localStorage')) = Len(StoredItems) - 1
               /\ MessagesKept(itemId)]_vars

\* the part of C16 that does not depend on ids being unique: one item with
\* the id is removed, the first, and the messages are kept
C16_DeleteRemovesOneAndKeepsMessages ==
    [][\A itemId \in DeletedItemIds(localStorage) :
           DeletesStored(itemId) =>
               LET index == FindIndexById(StoredItems, itemId)
               IN /\ ItemsIn(localStorage')
                         = SubSeq(StoredItems, 1, index - 1)
                               \o SubSeq(StoredItems, index + 1, Len(StoredItems))
                  /\ MessagesKept(itemId)]_vars

\* a created item was deleted while its thread holds a message: the message
\* is still returned for the thread
C16_OrphanedThread ==
    \E i \in DOMAIN StoredMessages :
        LET msg == StoredMessages[i]
        IN /\ msg.scheduleItemId # Null
           /\ msg.content = "ok"
           /\ FindIndexById(StoredItems, msg.scheduleItemId) = 0
           /\ getMessagesForThread(localStorage, msg.projectId, msg.scheduleItemId) # <<>>

\* ---------------------------------------------------------------------------
\* C17: the message collection is append-only
\* ---------------------------------------------------------------------------
\* the fields of a message that identify it and carry its content
MessageFields(msg) ==
    [id |-> msg.id, projectId |-> msg.projectId, scheduleItemId |-> msg.scheduleItemId,
     authorId |-> msg.authorId, content |-> msg.content, createdAt |-> msg.createdAt]

MessagesIn(ls) == getFromStorage(ls, KEYS.messages, <<>>)

\* C17: the message store is append-only and messages are immutable: every
\* message that is stored is still stored after any step of an exported store
\* operation, with the same id, projectId, scheduleItemId, authorId, content
\* and createdAt; no operation edits or removes a message.
C17_MessagesNeverRemoved ==
    [][\A i \in DOMAIN StoredMessages :
           \E j \in DOMAIN MessagesIn(localStorage') :
               MessageFields(MessagesIn(localStorage')[j]) = MessageFields(StoredMessages[i])]_vars

\* C17 as amended: resetStore replaces the message collection by the seeded
\* messages; every step of any other operation keeps the stored messages, in
\* their order and unchanged, as the beginning of the collection, and the
\* seeded messages are stored in every reachable state.
C17_AppendOnlyBetweenResets ==
    [][/\ IF resetStore
          THEN MessagesIn(localStorage') = seedMessages
          ELSE /\ Len(MessagesIn(localStorage')) >= Len(StoredMessages)
               /\ SubSeq(MessagesIn(localStorage'), 1, Len(StoredMessages)) = StoredMessages
       /\ SubSeq(StoredMessages, 1, Len(seedMessages)) = seedMessages]_vars

\* a message was created and a thread marked as read afterwards: the created
\* message is stored after the seeded ones
C17_Witness ==
    /\ Len(StoredMessages) > Len(seedMessages)
    /\ SubSeq(StoredMessages, 1, Len(seedMessages)) = seedMessages
    /\ ThreadLedger # EmptyRecord

\* ---------------------------------------------------------------------------
\* C18: the auto-save saves first, then asks for the parse
\* ---------------------------------------------------------------------------
\* the step is the callback of the pending timer: the timer is gone and the
\* 'saved' indicator timer is set
Fired(timer) ==
    /\ timer \in editor.timers
    /\ timer \notin editor'.timers
    /\ ~editor.savedTimer
    /\ editor'.savedTimer

\* the log stored in ls for the timer's project and date holds the timer's
\* text, weather, crew count and visitors
Saved(ls, timer) ==
    LET log == getDailyLogByDate(ls, timer.projectId, timer.selectedDate)
    IN /\ log # NoLog
       /\ log.rawEntry = timer.rawEntry
       /\ Lookup(log, "weather", "") = timer.weather
       /\ (IF "crewCount" \in DOMAIN log THEN ToString(log.crewCount) ELSE "") = timer.crewCount
       /\ Lookup(log, "visitors", "") = timer.visitors

\* C18: a step that issues a parse request is the callback of an auto-save
\* timer, and after the step the log stored for the request's project and
\* date holds the request's text; every callback of an auto-save timer stores
\* its values by upsertDailyLog, whatever the parse status is and whether or
\* not it issues a request.
C18_SaveThenParse ==
    [][(editor.open /\ editor'.open) =>
           /\ \A timer \in editor.timers : Fired(timer) => Saved(localStorage', timer)
           /\ Len(editor'.requests) > Len(editor.requests) =>
                  \E timer \in editor.timers :
                      /\ Fired(timer)
                      /\ editor'.requests = Append(editor.requests, NewRequest(timer))
                      /\ Saved(localStorage', timer)]_vars

\* a parse request is in flight and its text is what is stored for its date
C18_Witness ==
    /\ editor.open
    /\ \E i \in DOMAIN editor.requests :
           LET request == editor.requests[i]
               log == getDailyLogByDate(localStorage, request.projectId, request.selectedDate)
           IN log # NoLog /\ log.rawEntry = request.rawEntry /\ editor.parseStatus = "parsing"

\* a text too short to be parsed was saved while a request was in flight
C18_WitnessSavedWhileParsing ==
    /\ editor.open
    /\ editor.saveStatus = "saved"
    /\ \E i \in DOMAIN editor.requests :
           LET request == editor.requests[i]
               log == getDailyLogByDate(localStorage, request.projectId, request.selectedDate)
           IN log # NoLog /\ log.rawEntry = "Short day"

\* a save was made after a parse request had failed
C18_WitnessSavedAfterFailure ==
    /\ editor.open
    /\ editor.saveStatus = "saved"
    /\ editor.parseStatus = "error"
    /\ editor.requests = <<>>
    /\ LET log == getDailyLogByDate(localStorage, editor.projectId, editor.selectedDate)
       IN log # NoLog /\ log.rawEntry = "Short day"

\* ---------------------------------------------------------------------------
\* C19: a failed parse request
\* ---------------------------------------------------------------------------
\* rawEntry, weather, crewCount and visitors of a stored log
SavedFields(log) ==
    [k \in DOMAIN log \cap {"rawEntry", "weather", "crewCount", "visitors"} |-> log[k]]

\* C19: when a parse request fails (the fetch rejects, the response is not ok
\* or its body is no JSON), the editor's parseStatus becomes 'error', the
\* parsedData shown and the parsedData stored stay as they were, and the log
\* stored for the request's project and date is there with the rawEntry,
\* weather, crewCount and visitors it had before, those of the preceding save.
C19_FailureKeepsSave ==
    [][(editor.open /\ ParseFails) =>
           /\ editor'.parseStatus = "error"
           /\ editor'.parsedData = editor.parsedData
           /\ getFromStorage(localStorage', KEYS.dailyLogs, <<>>) = StoredLogs
           /\ \A i \in DOMAIN editor.requests :
                  LET request == editor.requests[i]
                      before == getDailyLogByDate(localStorage, request.projectId,
                                                  request.selectedDate)
                      after == getDailyLogByDate(localStorage', request.projectId,
                                                 request.selectedDate)
                  IN /\ after # NoLog
                     /\ SavedFields(after) = SavedFields(before)]_vars

\* the request for the text saved last has failed: the log of the selected
\* date holds that text and the weather saved with it, and no parsedData
C19_Witness ==
    /\ editor.open
    /\ editor.parseStatus = "error"
    /\ editor.requests = <<>>
    /\ LET log == getDailyLogByDate(localStorage, editor.projectId, editor.selectedDate)
       IN /\ log # NoLog
          /\ log.rawEntry = editor.lastParsedText
          /\ Lookup(log, "weather", "") = "Rain"
          /\ "parsedData" \notin DOMAIN log

\* ---------------------------------------------------------------------------
\* C20: the auto-save is debounced
\* ---------------------------------------------------------------------------
EditedFields == {"rawEntry", "weather", "crewCount", "visitors"}

\* the step changes rawEntry, weather, crewCount or visitors of the editor
FieldsChange == \E field \in EditedFields : editor'[field] # editor[field]

\* the step is a call of upsertDailyLog: a log is added, or the rawEntry,
\* weather, crewCount or visitors of a stored log change
LogSaved ==
    LET before == StoredLogs
        after == getFromStorage(localStorage', KEYS.dailyLogs, <<>>)
    IN \/ Len(after) # Len(before)
       \/ \E i \in DOMAIN before : SavedFields(after[i]) # SavedFields(before[i])

\* C20: at most one auto-save timer is pending at any time; a step that
\* changes rawEntry, weather, crewCount or visitors cancels the timer that was
\* pending and leaves at most the timer it sets, which holds the new values;
\* upsertDailyLog is called only by the callback of the pending timer, that
\* is one not cancelled, and with the values the fields have at that time,
\* those of the latest edit.
C20_Debounced ==
    [][(editor.open /\ editor'.open) =>
           /\ Cardinality(editor.timers) <= 1
           /\ Cardinality(editor'.timers) <= 1
           /\ FieldsChange =>
                  /\ editor.timers \cap editor'.timers = {}
                  /\ editor'.timers \subseteq {NewTimer(editor')}
           /\ LogSaved =>
                  \E timer \in editor.timers :
                      /\ Fired(timer)
                      /\ timer = NewTimer(editor)
                      /\ Saved(localStorage', timer)]_vars

\* two fields were edited one after the other and nothing was saved between:
\* one timer is pending and it holds both values
C20_Witness ==
    /\ editor.open
    /\ editor.edits = 2
    /\ editor.rawEntry = "Short day"
    /\ editor.weather = "Rain"
    /\ editor.timers = {NewTimer(editor)}
    /\ getDailyLogByDate(localStorage, editor.projectId, editor.selectedDate) = NoLog

\* the timer of the second edit has fired: the log holds both values
C20_WitnessSaved ==
    /\ editor.open
    /\ editor.edits = 2
    /\ editor.rawEntry = "Short day"
    /\ editor.weather = "Rain"
    /\ editor.timers = {}
    /\ editor.saveStatus = "saved"
    /\ Saved(localStorage, NewTimer(editor))

\* ---------------------------------------------------------------------------
\* C21: the timers of an editor that unmounts
\* ---------------------------------------------------------------------------
\* the editor was mounted and is unmounted
Unmounted(ed) == ed # NoEditor /\ ~ed.open

\* C21: when the editor unmounts, the pending auto-save timer and the pending
\* timer of the 'saved' indicator are cancelled: after the unmount no timer of
\* the editor is pending, so no timer callback runs and upsertDailyLog does
\* not write.
C21_UnmountCancelsTimers ==
    [][/\ Unmounted(editor') => editor'.timers = {} /\ ~editor'.savedTimer
       /\ Unmounted(editor) =>
              /\ ~LogSaved
              /\ editor'.timers = editor.timers
              /\ editor'.savedTimer = editor.savedTimer]_vars

\* the part of C21 about the auto-save: after the unmount no auto-save timer
\* is pending and no step calls upsertDailyLog
C21_NoSaveAfterUnmount ==
    [][/\ Unmounted(editor') => editor'.timers = {}
       /\ Unmounted(editor) => ~LogSaved /\ editor'.timers = {}]_vars

\* the editor was unmounted while an auto-save timer was pending: the edit is
\* not stored and no timer is left
C21_PendingSaveDropped ==
    /\ Unmounted(editor)
    /\ editor.rawEntry = "Short day"
    /\ editor.timers = {}
    /\ getDailyLogByDate(localStorage, editor.projectId, editor.selectedDate) = NoLog

\* ---------------------------------------------------------------------------
\* C22: the parse endpoint rejects short entries
\* ---------------------------------------------------------------------------
\* the rawEntry of the request is missing or has fewer than 50 characters
\* after trimming
EntryTooShort(rawEntry) ==
    \/ rawEntry.type \in {"undefined", "null"}
    \/ rawEntry.type = "string" /\ Len(Trim(rawEntry.value)) < MinEntryLength

\* C22: a request to the parse endpoint whose rawEntry is missing or has
\* fewer than 50 characters after trimming is answered with an error status
\* and client.messages.create is not called, whatever the API key, the
\* schedule items and the rest of the request are.
C22_ShortEntryRejected ==
    (endpoint.called /\ EntryTooShort(endpoint.request.rawEntry)) =>
        /\ endpoint.response.status >= 400
        /\ ~endpoint.response.downstream

\* an entry of sixty blanks was sent with the API key set and the schedule
\* items given, and was answered with 400 without the downstream call
C22_Witness ==
    /\ endpoint.called
    /\ endpoint.request.apiKey
    /\ endpoint.request.body = "object"
    /\ endpoint.request.rawEntry.type = "string"
    /\ Len(endpoint.request.rawEntry.value) >= MinEntryLength
    /\ Trim(endpoint.request.rawEntry.value) = ""
    /\ endpoint.request.scheduleItems # <<>>
    /\ endpoint.response = [status |-> 400, downstream |-> FALSE]

\* a long entry reaches the downstream call
C22_WitnessLongEntry ==
    /\ endpoint.called
    /\ endpoint.response = [status |-> 200, downstream |-> TRUE]

\* ---------------------------------------------------------------------------
\* C23: which auto-saves send a parse request
\* ---------------------------------------------------------------------------
\* the step sends a parse request
RequestSent == Len(editor'.requests) > Len(editor.requests)

\* C23: after an auto-save a parse request is sent if and only if the trimmed
\* text has at least 50 characters and differs from lastParsedTextRef, the
\* last text submitted for parsing (set to the text before the request is
\* sent, and to the stored rawEntry when a log with parsedData is loaded);
\* therefore a request never carries the text of the request sent before it,
\* also when that request has failed.
C23_SentIffLongAndNew ==
    [][(editor.open /\ editor'.open) =>
           /\ \A timer \in editor.timers :
                  Fired(timer) =>
                      (RequestSent <=> /\ Len(Trim(timer.rawEntry)) >= MinParseLength
                                       /\ timer.rawEntry # editor.lastParsedText)
           /\ RequestSent =>
                  editor'.requests[Len(editor'.requests)].rawEntry # editor.lastSubmitted]_vars

\* C23 as amended: after an auto-save a request is sent if and only if the
\* trimmed text has at least 50 characters and differs from lastParsedTextRef,
\* which the step then sets to the text; only the load of a log (a change of
\* the date) makes the ref differ from the text submitted last, so as long as
\* no log is loaded a request never carries the text of the request sent
\* before it, also when that request has failed.
C23_SentIffDiffersFromRef ==
    [][(editor.open /\ editor'.open) =>
           /\ \A timer \in editor.timers :
                  Fired(timer) =>
                      /\ RequestSent <=> /\ Len(Trim(timer.rawEntry)) >= MinParseLength
                                         /\ timer.rawEntry # editor.lastParsedText
                      /\ RequestSent => editor'.lastParsedText = timer.rawEntry
           /\ (editor'.selectedDate = editor.selectedDate
                   /\ editor.lastParsedText = editor.lastSubmitted) =>
                  /\ editor'.lastParsedText = editor'.lastSubmitted
                  /\ RequestSent =>
                         editor'.requests[Len(editor'.requests)].rawEntry
                             # editor.lastSubmitted]_vars

\* the text of the request in flight was saved again, with the weather, and
\* no second request was sent for it
C23_Witness ==
    /\ editor.open
    /\ editor.saveStatus = "saved"
    /\ Len(editor.requests) = 1
    /\ editor.requests[1].weather = ""
    /\ editor.requests[1].rawEntry = editor.lastSubmitted
    /\ LET log == getDailyLogByDate(localStorage, editor.projectId, editor.selectedDate)
       IN /\ log # NoLog
          /\ log.rawEntry = editor.lastSubmitted
          /\ Lookup(log, "weather", "") = "Rain"

\* the request for a text has failed and the text was saved again: no
\* request is in flight
C23_WitnessAfterFailure ==
    /\ editor.open
    /\ editor.saveStatus = "saved"
    /\ editor.parseStatus = "error"
    /\ editor.requests = <<>>
    /\ editor.timers = {}
    /\ editor.edits = 2
    /\ editor.rawEntry = editor.lastSubmitted
    /\ editor.weather = "Rain"
    /\ Saved(localStorage, NewTimer(editor))

\* the ref no longer holds the text submitted last: a log without parsedData
\* was loaded after the request for its text was sent
C23_RefForgotSubmittedText ==
    /\ editor.open
    /\ editor.lastSubmitted # ""
    /\ editor.rawEntry = editor.lastSubmitted
    /\ editor.lastParsedText = ""

\* ---------------------------------------------------------------------------
\* C24: a message sent from a tag-filter channel
\* ---------------------------------------------------------------------------
\* the messages the open channel shows once the project's messages are reloaded
ChannelShows == filteredMessages(localStorage, channelView.projectId, channelView.channelConfig)

\* C24: every message sent from the compose box of a tag-filter channel is
\* stored in the general thread of the project and is one of the messages
\* the channel shows after a reload.
C24_SentMessageAppears ==
    channelView.open =>
        \A i \in 1..Len(channelView.sent) :
            /\ channelView.sent[i].scheduleItemId = Null
            /\ Includes(getMessagesForThread(localStorage, channelView.projectId, Null),
                        channelView.sent[i])
            /\ Includes(ChannelShows, channelView.sent[i])

\* the part of C24 that holds: a sent message is stored in the general thread,
\* and the channel shows it exactly when its text carries a tag of the channel
C24_SentToGeneralThread ==
    channelView.open =>
        \A i \in 1..Len(channelView.sent) :
            /\ channelView.sent[i].scheduleItemId = Null
            /\ Includes(getMessagesForThread(localStorage, channelView.projectId, Null),
                        channelView.sent[i])
            /\ Includes(ChannelShows, channelView.sent[i])
                   <=> SomeTagIn(detectTagsOf[channelView.sent[i].content],
                                 channelView.channelConfig.tagIds)

\* "ok" was sent from #rfis-submittals and the channel does not show it
C24_SentButNotShown ==
    /\ channelView.open
    /\ channelView.channelConfig.id = "rfis-submittals"
    /\ Len(channelView.sent) = 1
    /\ channelView.sent[1].content = "ok"
    /\ ~Includes(ChannelShows, channelView.sent[1])

\* a message with a tag of the channel was sent and the channel shows it
C24_SentAndShown ==
    /\ channelView.open
    /\ Len(channelView.sent) = 1
    /\ Includes(ChannelShows, channelView.sent[1])

\* ---------------------------------------------------------------------------
\* C25: two parse requests for one log
\* ---------------------------------------------------------------------------
ParsedDataStored(ls, projectId, date) ==
    LET log == getDailyLogByDate(ls, projectId, date)
    IN IF log # NoLog /\ "parsedData" \in DOMAIN log THEN <<log.parsedData>> ELSE <<>>

RequestsInFlightFor(projectId, date) ==
    {i \in DOMAIN editor.requests : /\ editor.requests[i].projectId = projectId
                                    /\ editor.requests[i].selectedDate = date}

\* C25: when a request was sent for a log while an earlier request for the
\* same log was in flight, then once it has succeeded and no request for the
\* log is in flight any more, the parsedData stored for the log is the answer
\* to the text of that later request.
C25_LaterTextWins ==
    (/\ editor # NoEditor
     /\ editor.lastRequest # <<>>
     /\ editor.lastRequest[1].overlapped
     /\ editor.lastRequest[1].outcome = "ok"
     /\ RequestsInFlightFor(editor.lastRequest[1].projectId,
                            editor.lastRequest[1].selectedDate) = {}) =>
        ParsedDataStored(localStorage, editor.lastRequest[1].projectId,
                         editor.lastRequest[1].selectedDate)
            = <<ParsedDataFor(editor.lastRequest[1].rawEntry)>>

\* what the code does: the response that arrives is stored, whichever
\* request it answers
C25_LastResponseWins ==
    [][(editor # NoEditor /\ editor' # NoEditor
            /\ Len(editor'.requests) < Len(editor.requests)
            /\ editor'.parseStatus = "done") =>
           \E i \in DOMAIN editor.requests :
               /\ editor'.requests = WithoutRequest(editor.requests, i)
               /\ ParsedDataStored(localStorage', editor.requests[i].projectId,
                                   editor.requests[i].selectedDate)
                      = <<ParsedDataFor(editor.requests[i].rawEntry)>>]_vars

\* both requests have succeeded, the later one first: the answer to the
\* earlier text is stored
C25_StaleResponseStored ==
    /\ editor # NoEditor
    /\ editor.open
    /\ editor.requests = <<>>
    /\ editor.lastRequest # <<>>
    /\ editor.lastRequest[1].overlapped
    /\ editor.lastRequest[1].outcome = "ok"
    /\ editor.rawEntry = editor.lastRequest[1].rawEntry
    /\ ParsedDataStored(localStorage, editor.projectId, editor.selectedDate)
           # <<ParsedDataFor(editor.rawEntry)>>

\* both requests have succeeded in the order they were sent
C25_InOrder ==
    /\ editor # NoEditor
    /\ editor.open
    /\ editor.requests = <<>>
    /\ editor.lastRequest # <<>>
    /\ editor.lastRequest[1].overlapped
    /\ editor.lastRequest[1].outcome = "ok"
    /\ ParsedDataStored(localStorage, editor.projectId, editor.selectedDate)
           = <<ParsedDataFor(editor.lastRequest[1].rawEntry)>>

\* ---------------------------------------------------------------------------
\* C26: generated ids
\* ---------------------------------------------------------------------------
\* no two entries of the collection have the same id
IdsDiffer(collection) ==
    \A i, j \in 1..Len(collection) : collection[i].id = collection[j].id => i = j

\* C26: no two stored messages have the same id and no two stored schedule
\* items have the same id, also when two of them are created at the same
\* clock instant.
C26_IdsUnique ==
    /\ IdsDiffer(StoredMessages)
    /\ IdsDiffer(StoredItems)

\* the part of C26 that holds: entries that share an id were created at the
\* same clock instant
C26_SameIdSameInstant ==
    /\ \A i, j \in 1..Len(StoredMessages) :
           StoredMessages[i].id = StoredMessages[j].id =>
               StoredMessages[i].createdAt = StoredMessages[j].createdAt
    /\ \A i, j \in 1..Len(StoredItems) :
           StoredItems[i].id = StoredItems[j].id =>
               StoredItems[i].createdAt = StoredItems[j].createdAt

\* two items created at the same clock instant are stored under one id
C26_TwoItemsOneId ==
    \E i, j \in 1..Len(StoredItems) :
        /\ i < j
        /\ StoredItems[i].id = StoredItems[j].id
        /\ StoredItems[i].createdAt = ToISOString(now)

\* two items created at different clock instants have different ids
C26_TwoItemsTwoIds ==
    \E i, j \in 1..Len(StoredItems) :
        /\ i < j
        /\ i > Len(seedScheduleItems)
        /\ StoredItems[i].id # StoredItems[j].id

\* ---------------------------------------------------------------------------
\* C27: markThreadAsRead changes one entry of the thread ledger
\* ---------------------------------------------------------------------------
\* the threads of the store: the general thread of every project and the
\* thread of every stored schedule item
ThreadsIn(ls) ==
    {<<projectId, Null>> : projectId \in ProjectIds}
    \cup {<<ItemsIn(ls)[i].projectId, ItemsIn(ls)[i].id>> : i \in 1..Len(ItemsIn(ls))}

\* C27: markThreadAsRead(U, P, Th) leaves getLastReadTimestamp and
\* getUnreadCountForThread of every other user and of every other thread as
\* they were, and two different threads never have the same ledger key.
C27_ReadChangesOneEntry ==
    [][/\ \A th1, th2 \in ThreadsIn(localStorage) :
              getThreadKey(th1[1], th1[2]) = getThreadKey(th2[1], th2[2]) => th1 = th2
       /\ \A u \in UserIds, th \in InputLedgerThreads :
              markThreadAsRead(u, th[1], th[2]) =>
                  \A other \in UserIds, thread \in ThreadsIn(localStorage) :
                      (other # u \/ thread # th) =>
                          /\ getLastReadTimestamp(localStorage', other, thread[1], thread[2])
                                 = getLastReadTimestamp(localStorage, other, thread[1], thread[2])
                          /\ getUnreadCountForThread(localStorage', other, thread[1], thread[2])
                                 = getUnreadCountForThread(localStorage, other, thread[1],
                                                           thread[2])]_vars

\* user_pm has read the general thread of project-1 and, later, the thread of
\* schedule-2: each entry carries the instant of its own reading
C27_Witness ==
    /\ getLastReadTimestamp(localStorage, "user_pm", "project-1", Null) # Null
    /\ getLastReadTimestamp(localStorage, "user_pm", "project-1", "schedule-2") = ToISOString(now)
    /\ getLastReadTimestamp(localStorage, "user_pm", "project-1", Null) # ToISOString(now)
    /\ getLastReadTimestamp(localStorage, "user_super", "project-1", Null) = Null

\* two users have read the same thread at different instants
C27_WitnessTwoUsers ==
    /\ getLastReadTimestamp(localStorage, "user_pm", "project-1", Null) # Null
    /\ getLastReadTimestamp(localStorage, "user_super", "project-1", Null) = ToISOString(now)
    /\ getLastReadTimestamp(localStorage, "user_pm", "project-1", Null) # ToISOString(now)

\* ---------------------------------------------------------------------------
\* C28: createMessage and the unread counts
\* ---------------------------------------------------------------------------
\* the last-read timestamp is absent or earlier than the instant iso
ReadBefore(lastRead, iso) == ~Truthy(lastRead) \/ getTime[lastRead] < getTime[iso]

\* C28: createMessage(P, Th, author A, ...) leaves the unread count of A for
\* (P, Th) unchanged, adds exactly 1 to the unread count for (P, Th) of every
\* other user who has not read the thread or has read it before the
\* message's createdAt, and leaves the unread count of every other thread
\* unchanged for every user.
C28_CreateAddsOneUnread ==
    [][Len(MessagesIn(localStorage')) = Len(MessagesIn(localStorage)) + 1 =>
           LET msg == MessagesIn(localStorage')[Len(MessagesIn(localStorage'))]
           IN \A u \in UserIds, thread \in ThreadsIn(localStorage) :
                  LET before == getUnreadCountForThread(localStorage, u, thread[1], thread[2])
                      after == getUnreadCountForThread(localStorage', u, thread[1], thread[2])
                      lastRead == getLastReadTimestamp(localStorage, u, thread[1], thread[2])
                  IN IF thread # <<msg.projectId, msg.scheduleItemId>> THEN after = before
                     ELSE IF u = msg.authorId THEN after = before
                     ELSE ReadBefore(lastRead, msg.createdAt) => after = before + 1]_vars

\* user_super has just posted to the general thread of project-1, which
\* user_pm had read earlier: the message is unread for user_pm
C28_Witness ==
    LET msg == StoredMessages[Len(StoredMessages)]
        lastRead == getLastReadTimestamp(localStorage, "user_pm", "project-1", Null)
    IN /\ Len(StoredMessages) > Len(seedMessages)
       /\ msg.createdAt = ToISOString(now)
       /\ msg.authorId = "user_super"
       /\ msg.projectId = "project-1"
       /\ msg.scheduleItemId = Null
       /\ Truthy(lastRead)
       /\ getTime[lastRead] < now
       /\ getUnreadCountForThread(localStorage, "user_pm", "project-1", Null) >= 1

\* a user who read the thread at the instant of the message does not get it
\* as unread
C28_WitnessReadAtSameInstant ==
    LET msg == StoredMessages[Len(StoredMessages)]
    IN /\ Len(StoredMessages) > Len(seedMessages)
       /\ msg.authorId = "user_super"
       /\ getLastReadTimestamp(localStorage, "user_pm", msg.projectId, msg.scheduleItemId)
              = msg.createdAt
       /\ getUnreadCountForThread(localStorage, "user_pm", msg.projectId, msg.scheduleItemId)
              = Len(SelectSeq(getMessagesForThread(localStorage, msg.projectId,
                                                   msg.scheduleItemId),
                              LAMBDA m : /\ m.authorId # "user_pm"
                                         /\ getTime[m.createdAt] > getTime[msg.createdAt]))

\* ---------------------------------------------------------------------------
\* C29: the order values within a project
\* ---------------------------------------------------------------------------
\* C29: in every state reached from the seeded store by createScheduleItem,
\* updateScheduleItem, updateScheduleItemStatus and deleteScheduleItem, no two
\* stored schedule items of one project have the same order.
C29_OrdersDiffer ==
    \A i, j \in 1..Len(StoredItems) :
        (/\ StoredItems[i].projectId = StoredItems[j].projectId
         /\ StoredItems[i].order = StoredItems[j].order) => i = j

\* schedule-4 of project-2 was deleted, schedule-2 of project-1 was edited
\* and completed, and an item was created in project-2 after the deletion
C29_Witness ==
    /\ FindIndexById(StoredItems, "schedule-4") = 0
    /\ FindIndexById(StoredItems, "schedule-2") # 0
    /\ StoredItems[FindIndexById(StoredItems, "schedule-2")].title = "Framing - Building B"
    /\ StoredItems[FindIndexById(StoredItems, "schedule-2")].status = "completed"
    /\ \E item \in CreatedItems(localStorage) :
           /\ item.projectId = "project-2"
           /\ item.order = SeedMaxOrder("project-2") + 1

\* two items created in one project at one clock instant: one id, two orders
C29_WitnessSameInstant ==
    \E i, j \in 1..Len(StoredItems) :
        /\ i < j
        /\ StoredItems[i].id = StoredItems[j].id
        /\ StoredItems[i].projectId = StoredItems[j].projectId
        /\ StoredItems[j].order = StoredItems[i].order + 1

\* ---------------------------------------------------------------------------
\* C30: a pending save and the date picker
\* ---------------------------------------------------------------------------
\* C30: while the editor is mounted an edit is committed under the date that
\* was selected when it was made; a change of the selected date while a save
\* is pending does not discard the pending edit: after the step its timer is
\* still pending or its values are stored under its own date.
C30_DateChangeKeepsPendingSave ==
    [][(editor.open /\ editor'.open /\ editor'.selectedDate # editor.selectedDate) =>
           \A timer \in editor.timers :
               timer \in editor'.timers \/ Saved(localStorage', timer)]_vars

\* the part of C30 that holds: the callback of a timer stores the values of
\* its closure under the date of its closure and writes no log of another
\* date, whatever date is selected when it runs
C30_SavedUnderOwnDate ==
    [][(editor.open /\ editor'.open) =>
           \A timer \in editor.timers :
               Fired(timer) =>
                   /\ Saved(localStorage', timer)
                   /\ \A date \in InputDates \ {timer.selectedDate} :
                          getDailyLogByDate(localStorage', timer.projectId, date)
                              = getDailyLogByDate(localStorage, timer.projectId, date)]_vars

\* the date was changed while a save was pending: no timer is left and the
\* log of the day that was edited is not stored
C30_PendingEditDiscarded ==
    /\ editor.open
    /\ editor.edits = 2
    /\ editor.selectedDate = "2026-02-03"
    /\ editor.timers = {}
    /\ editor.requests = <<>>
    /\ editor.lastSubmitted = ""
    /\ ~editor.savedTimer
    /\ getDailyLogByDate(localStorage, editor.projectId, Today(now)) = NoLog

\* a field was edited before the requestAnimationFrame callback of the load
\* effect ran: no save is scheduled for it
C30_EditDuringLoadNotScheduled ==
    /\ editor.open
    /\ editor.isInitialLoad
    /\ editor.rawEntry = "Short day"
    /\ editor.timers = {}
    /\ getDailyLogByDate(localStorage, editor.projectId, editor.selectedDate) = NoLog

====
